---- MODULE Spec2Model ----
(***************************************************************************)
(* VideoErrorHandler (src/src/utils/VideoErrorHandler.js): classification  *)
(* of video failures and the retry / degrade / fall back recovery policy.  *)
(*                                                                         *)
(* Optional JavaScript values (undefined, null, an absent field) are sets  *)
(* of at most one element: {} is undefined, {v} is the value v.            *)
(* An error text is the set of the pattern words it contains, compared     *)
(* case-insensitively as the /.../i patterns of the source do.             *)
(* A downlink is counted in tenths of a Mbps (15 is 1.5 Mbps).             *)
(*                                                                         *)
(* VideoSourceManager (src/src/utils/VideoSourceManager.js) with its       *)
(* configuration (src/unnamed/part_001, imported as config/videoConfig.js) *)
(* and the video attributes ResponsiveVideoBackground derives from it.     *)
(*                                                                         *)
(* PerformanceMonitor (src/src/utils/VideoErrorHandler.js): the buffers of *)
(* recent load, stall and memory samples and the sampling timer.           *)
(*                                                                         *)
(* ResponsiveVideoBackground                                               *)
(* (src/src/components/ResponsiveVideoBackground.js): its state, the       *)
(* events of the <video> element, the retry timers and the unmount.        *)
(***************************************************************************)
EXTENDS Integers, Sequences, FiniteSets, TLC

VARIABLES
  maxRetries,            \* this.maxRetries
  retryDelay,            \* this.retryDelay
  performanceThreshold,  \* this.performanceThreshold
  networkTimeout,        \* this.networkTimeout
  errorHistory,          \* this.errorHistory: sequence of errorInfo
  retryCount,            \* this.retryCount
  performanceMetrics,    \* this.performanceMetrics
  op,                    \* the operation that ran last
  last,                  \* the action object the last handleError returned
  retryLog,              \* the delays, without jitter, of the Retry actions returned
                         \* since the last reset or successful load
  probe,                 \* a direct call of classifyError or of checkNetworkStatus:
                         \* input and result
  thrown,                \* the exception the last handleError call ended with, if any
  pending,               \* the handleError calls suspended at the await of line 65,
                         \* in the order of the microtask queue
  env,                   \* window, navigator and the battery the manager reads
  config,                \* VIDEO_SOURCE_CONFIG and QUALITY_SELECTION_RULES
  manager,               \* the fields of the VideoSourceManager
  out,                   \* what the last call on the manager returned
  monitor,               \* this.performanceMonitor: metrics and isMonitoring; none
                         \* where the buffers of the monitor are not followed
  timers,                \* the setTimeout callbacks of monitorMemoryUsage not yet run
  pushed,                \* the entries pushed so far into each buffer of the monitor
  component              \* the state and refs of the ResponsiveVideoBackground

vars == <<maxRetries, retryDelay, performanceThreshold, networkTimeout,
          errorHistory, retryCount, performanceMetrics, op, last, retryLog, probe,
          thrown, pending, env, config, manager, out, monitor, timers, pushed, component>>

\* the variables of the VideoSourceManager and of what it reads
sourceVars == <<env, config, manager, out>>

handlerVars == <<maxRetries, retryDelay, performanceThreshold, networkTimeout,
                 errorHistory, retryCount, performanceMetrics, op, last, retryLog>>

---------------------------------------------------------------------------
(* Bounds of the model *)

\* handleError calls in one run (the source's errorHistory grows without bound)
MaxErrors == 3

\* handleError calls in one run of network failures only
MaxSession == 5

---------------------------------------------------------------------------
(* Optional values and JavaScript truthiness *)

None == {}
Some(x) == {x}
Value(o) == CHOOSE x \in o : TRUE
\* `x && ...` on an optional number: undefined and 0 are falsy
TruthyNum(o) == o # {} /\ Value(o) # 0

Min(a, b) == IF a <= b THEN a ELSE b

RECURSIVE Pow2(_)
Pow2(n) == IF n <= 0 THEN 1 ELSE 2 * Pow2(n - 1)

---------------------------------------------------------------------------
(* ERROR_TYPES and FALLBACK_STRATEGIES *)

NETWORK_ERROR == "network_error"
CODEC_ERROR == "codec_error"
PERFORMANCE_ERROR == "performance_error"
LOADING_ERROR == "loading_error"
PLAYBACK_ERROR == "playback_error"
TIMEOUT_ERROR == "timeout_error"

ERROR_TYPES == {NETWORK_ERROR, CODEC_ERROR, PERFORMANCE_ERROR,
                LOADING_ERROR, PLAYBACK_ERROR, TIMEOUT_ERROR}

RETRY == "retry"
REDUCE_QUALITY == "reduce_quality"
STATIC_BACKGROUND == "static_background"
DISABLE_VIDEO == "disable_video"

FALLBACK_STRATEGIES == {RETRY, REDUCE_QUALITY, STATIC_BACKGROUND, DISABLE_VIDEO}

---------------------------------------------------------------------------
(* Constructor *)

DefaultMaxRetries == 3
DefaultRetryDelay == 1000
DefaultPerformanceThreshold == 5000
DefaultNetworkTimeout == 10000

\* `options.x || d`: undefined and 0 give the default
OrDefault(o, d) == IF TruthyNum(o) THEN Value(o) ELSE d

\* the options objects a handler is constructed with
Options ==
  { [maxRetries |-> None, retryDelay |-> None,
     performanceThreshold |-> None, networkTimeout |-> None],
    [maxRetries |-> Some(2), retryDelay |-> Some(8000),
     performanceThreshold |-> Some(20000), networkTimeout |-> None] }

freshMetrics ==
  [loadStartTime |-> None, firstFrameTime |-> None, stallCount |-> 0, bufferingTime |-> 0]

NoAction ==
  [strategy |-> "", errorInfo |-> [type |-> "", retryCount |-> 0],
   delay |-> None, jitter |-> None, qualityReduction |-> None,
   fallbackType |-> None, networkStatus |-> None, currentQuality |-> None]

InitHandler ==
  /\ \E options \in Options :
       /\ maxRetries = OrDefault(options.maxRetries, DefaultMaxRetries)
       /\ retryDelay = OrDefault(options.retryDelay, DefaultRetryDelay)
       /\ performanceThreshold =
            OrDefault(options.performanceThreshold, DefaultPerformanceThreshold)
       /\ networkTimeout = OrDefault(options.networkTimeout, DefaultNetworkTimeout)
  /\ errorHistory = <<>>
  /\ retryCount = 0
  /\ performanceMetrics = freshMetrics
  /\ op = "constructor"
  /\ last = NoAction
  /\ retryLog = <<>>

---------------------------------------------------------------------------
(* The ambient state: navigator and performance *)

\* navigator.onLine, navigator.connection, performance.memory, navigator.deviceMemory
Ambient(onLine, connection, memory, deviceMemory) ==
  [onLine |-> onLine, connection |-> connection,
   memory |-> memory, deviceMemory |-> deviceMemory]

Connection(effectiveType, downlink) ==
  [effectiveType |-> effectiveType, downlink |-> downlink, saveData |-> FALSE]

\* NetworkMonitor.getConnectionInfo
getConnectionInfo(nav) ==
  LET connection == nav.connection IN
  [isOnline |-> nav.onLine,
   effectiveType |-> IF connection # {} /\ Value(connection).effectiveType # {}
                     THEN Value(Value(connection).effectiveType) ELSE "unknown",
   downlink |-> IF connection # {} /\ TruthyNum(Value(connection).downlink)
                THEN Value(connection).downlink ELSE None,
   saveData |-> connection # {} /\ Value(connection).saveData]

\* NetworkMonitor.isSlowConnection; `downlink && downlink < 1.5`
isSlowConnection(connectionInfo) ==
  IF connectionInfo.effectiveType = "slow-2g" \/ connectionInfo.effectiveType = "2g"
  THEN TRUE
  ELSE IF TruthyNum(connectionInfo.downlink) /\ Value(connectionInfo.downlink) < 15
  THEN TRUE
  ELSE FALSE

\* NetworkMonitor.checkNetworkStatus
checkNetworkStatus(nav) ==
  LET connectionInfo == getConnectionInfo(nav) IN
  [isOnline |-> connectionInfo.isOnline,
   isSlowConnection |-> isSlowConnection(connectionInfo),
   isSaveDataEnabled |-> connectionInfo.saveData,
   effectiveType |-> connectionInfo.effectiveType,
   estimatedBandwidth |-> connectionInfo.downlink]

\* PerformanceMonitor.isMemoryPressureHigh; usedJSHeapSize / jsHeapSizeLimit > 0.8
isMemoryPressureHigh(nav) ==
  IF nav.memory # {}
  THEN 10 * Value(nav.memory).usedJSHeapSize > 8 * Value(nav.memory).jsHeapSizeLimit
  ELSE IF nav.deviceMemory # {}
  THEN Value(nav.deviceMemory) < 2
  ELSE FALSE

---------------------------------------------------------------------------
(* PerformanceMonitor *)

\* entries pushed into one buffer of the monitor in one run
MaxRecorded == 21

\* setTimeout callbacks of monitorMemoryUsage pending at one time
MaxTimers == 2

\* array.push({...entry, timestamp}), then array.slice(-limit) when the array
\* is longer than limit.  The timestamp, Date.now() in the source, is the
\* ordinal of the push into its array: the clock reads later at every push.
push(array, entry, timestamp, limit) ==
  LET longer == Append(array, [timestamp |-> timestamp] @@ entry)
  IN IF Len(longer) > limit
     THEN SubSeq(longer, Len(longer) - limit + 1, Len(longer))
     ELSE longer

\* variant: a full buffer of load samples drops the sample just pushed
recordLoadSuccessDropsNewest(m, metrics, now) ==
  [m EXCEPT !.metrics.loadTimes =
     IF Len(m.metrics.loadTimes) >= 10 THEN m.metrics.loadTimes
     ELSE push(m.metrics.loadTimes, metrics, now, 10)]

recordLoadSuccess(m, metrics, now) ==
  [m EXCEPT !.metrics.loadTimes = push(m.metrics.loadTimes, metrics, now, 10)]

\* One run of monitorMemoryUsage: the monitor after it, and whether it called
\* setTimeout.  totalJSHeapSize is left out of the sample.
monitorMemoryUsage(m, performance, now) ==
  IF ~m.isMonitoring THEN [monitor |-> m, setTimeout |-> FALSE]
  ELSE [monitor |->
          IF performance.memory # {}
          THEN LET memory == Value(performance.memory) IN
               [m EXCEPT !.metrics.memoryUsage =
                  push(m.metrics.memoryUsage,
                       [used |-> memory.usedJSHeapSize, limit |-> memory.jsHeapSizeLimit],
                       now, 20)]
          ELSE m,
        setTimeout |-> TRUE]

---------------------------------------------------------------------------
(* classifyError *)

networkErrorPatterns == {"network", "connection", "timeout", "fetch", "cors", "net::"}

codecErrorPatterns ==
  {"codec", "format", "decode", "unsupported",
   "media_err_src_not_supported", "media_err_decode"}

\* pattern.test(errorMessage)
Test(pattern, errorMessage) == pattern \in errorMessage

\* error.message || error.toString(): the words of the message
ErrorMessage(error) == error.message

isNetworkError(error, networkInfo, nav) ==
  LET errorMessage == ErrorMessage(error)
      hasNetworkPattern == \E pattern \in networkErrorPatterns : Test(pattern, errorMessage)
      isOffline == ~nav.onLine
      hasSlowConnection == networkInfo # {} /\ Value(networkInfo).effectiveType = "slow-2g"
  IN hasNetworkPattern \/ isOffline \/ hasSlowConnection

isCodecError(error, videoElement) ==
  IF videoElement = {} THEN FALSE
  ELSE IF Value(videoElement).error # {}
  THEN LET code == Value(Value(videoElement).error) IN code = 4 \/ code = 3
  ELSE \E pattern \in codecErrorPatterns : Test(pattern, ErrorMessage(error))

isPerformanceError(error, context, nav) ==
  IF TruthyNum(context.loadTime) /\ Value(context.loadTime) > performanceThreshold
  THEN TRUE
  ELSE IF TruthyNum(context.stallCount) /\ Value(context.stallCount) > 3
  THEN TRUE
  ELSE IF isMemoryPressureHigh(nav)
  THEN TRUE
  ELSE FALSE

isTimeoutError(error, context) ==
  \/ Test("timeout", ErrorMessage(error))
  \/ (TruthyNum(context.loadTime) /\ Value(context.loadTime) > networkTimeout)

\* `videoElement && videoElement.error`
hasVideoError(context) ==
  context.videoElement # {} /\ Value(context.videoElement).error # {}

\* variant: the codec test runs before the network test
classifyErrorCodecFirst(error, context, nav) ==
  IF isCodecError(error, context.videoElement) THEN CODEC_ERROR
  ELSE IF isNetworkError(error, context.networkInfo, nav) THEN NETWORK_ERROR
  ELSE IF isPerformanceError(error, context, nav) THEN PERFORMANCE_ERROR
  ELSE IF isTimeoutError(error, context) THEN TIMEOUT_ERROR
  ELSE IF hasVideoError(context) THEN PLAYBACK_ERROR
  ELSE LOADING_ERROR

\* variant: the timeout test runs before the performance test
classifyErrorTimeoutFirst(error, context, nav) ==
  IF isNetworkError(error, context.networkInfo, nav) THEN NETWORK_ERROR
  ELSE IF isCodecError(error, context.videoElement) THEN CODEC_ERROR
  ELSE IF isTimeoutError(error, context) THEN TIMEOUT_ERROR
  ELSE IF isPerformanceError(error, context, nav) THEN PERFORMANCE_ERROR
  ELSE IF hasVideoError(context) THEN PLAYBACK_ERROR
  ELSE LOADING_ERROR

classifyError(error, context, nav) ==
  IF isNetworkError(error, context.networkInfo, nav) THEN NETWORK_ERROR
  ELSE IF isCodecError(error, context.videoElement) THEN CODEC_ERROR
  ELSE IF isPerformanceError(error, context, nav) THEN PERFORMANCE_ERROR
  ELSE IF isTimeoutError(error, context) THEN TIMEOUT_ERROR
  ELSE IF hasVideoError(context) THEN PLAYBACK_ERROR
  ELSE LOADING_ERROR

---------------------------------------------------------------------------
(* Recovery strategy *)

\* variant: the slow-connection test comes first and the offline test is lost
getNetworkErrorStrategyNoOffline(errorInfo, nav) ==
  LET networkStatus == checkNetworkStatus(nav) IN
  IF networkStatus.isSlowConnection THEN REDUCE_QUALITY
  ELSE RETRY

getNetworkErrorStrategy(errorInfo, nav) ==
  LET networkStatus == checkNetworkStatus(nav) IN
  IF ~networkStatus.isOnline THEN STATIC_BACKGROUND
  ELSE IF networkStatus.isSlowConnection THEN REDUCE_QUALITY
  ELSE RETRY

\* variant: every exhausted error falls back to the static background
getFinalFallbackStrategyAllStatic(errorType) ==
  STATIC_BACKGROUND

getFinalFallbackStrategy(errorType) ==
  CASE errorType = NETWORK_ERROR -> STATIC_BACKGROUND
    [] errorType = CODEC_ERROR -> STATIC_BACKGROUND
    [] errorType = PERFORMANCE_ERROR -> DISABLE_VIDEO
    [] OTHER -> STATIC_BACKGROUND

\* variant: the retry limit is never consulted
determineRecoveryStrategyNoLimit(errorInfo, nav) ==
  CASE errorInfo.type = NETWORK_ERROR -> getNetworkErrorStrategy(errorInfo, nav)
    [] errorInfo.type = CODEC_ERROR -> REDUCE_QUALITY
    [] errorInfo.type = PERFORMANCE_ERROR -> REDUCE_QUALITY
    [] errorInfo.type = TIMEOUT_ERROR -> RETRY
    [] OTHER -> IF errorInfo.retryCount < 2 THEN RETRY ELSE REDUCE_QUALITY

\* variant: the retry limit is compared with > instead of >=
determineRecoveryStrategyOffByOne(errorInfo, nav) ==
  IF errorInfo.retryCount > maxRetries
  THEN getFinalFallbackStrategy(errorInfo.type)
  ELSE determineRecoveryStrategyNoLimit(errorInfo, nav)

\* variant: a playback or loading error is retried once only
determineRecoveryStrategyRetriesOnce(errorInfo, nav) ==
  IF errorInfo.retryCount >= maxRetries
  THEN getFinalFallbackStrategy(errorInfo.type)
  ELSE IF errorInfo.type \in {PLAYBACK_ERROR, LOADING_ERROR}
  THEN IF errorInfo.retryCount < 1 THEN RETRY ELSE REDUCE_QUALITY
  ELSE determineRecoveryStrategyNoLimit(errorInfo, nav)

determineRecoveryStrategy(errorInfo, nav) ==
  IF errorInfo.retryCount >= maxRetries
  THEN getFinalFallbackStrategy(errorInfo.type)
  ELSE CASE errorInfo.type = NETWORK_ERROR -> getNetworkErrorStrategy(errorInfo, nav)
         [] errorInfo.type = CODEC_ERROR -> REDUCE_QUALITY
         [] errorInfo.type = PERFORMANCE_ERROR -> REDUCE_QUALITY
         [] errorInfo.type = TIMEOUT_ERROR -> RETRY
         [] OTHER -> IF errorInfo.retryCount < 2 THEN RETRY ELSE REDUCE_QUALITY

\* Math.random() * 1000 lies in [0, 1000); the draws the model takes from it
RandomJitter == {0, 999}

\* variant: the delay is computed after retryCount was incremented
calculateRetryDelayAfterIncrement(jitter) ==
  Min(retryDelay * Pow2(retryCount + 1) + jitter, 10000)

\* variant: the backoff shrinks with every retry
calculateRetryDelayShrinking(jitter) ==
  Min(retryDelay * Pow2(maxRetries - retryCount) + jitter, 10000)

calculateRetryDelay(jitter) ==
  LET baseDelay == retryDelay
      exponentialDelay == baseDelay * Pow2(retryCount)
  IN Min(exponentialDelay + jitter, 10000)

qualityLevels == <<"high", "medium", "low">>

\* Array.prototype.indexOf: zero-based, -1 when absent
indexOf(array, x) ==
  IF \E i \in 1..Len(array) : array[i] = x
  THEN (CHOOSE i \in 1..Len(array) : array[i] = x /\ \A j \in 1..(i - 1) : array[j] # x) - 1
  ELSE -1

\* array[i] for a zero-based i
At(array, i) == array[i + 1]

\* variant: the tier the caller passes is ignored
calculateQualityReductionIgnoresContext(errorInfo, context, nav) ==
  [from |-> "high",
   to |-> IF errorInfo.type = PERFORMANCE_ERROR THEN "medium" ELSE "high",
   reason |-> "error_recovery"]

\* variant: a performance error moves one tier up the list
calculateQualityReductionStepsUp(errorInfo, context, nav) ==
  LET currentQuality == IF context.currentQuality # {} THEN Value(context.currentQuality)
                        ELSE "high"
      currentIndex == indexOf(qualityLevels, currentQuality)
  IN [from |-> currentQuality,
      to |-> IF errorInfo.type = PERFORMANCE_ERROR /\ currentIndex > 0
             THEN At(qualityLevels, currentIndex - 1) ELSE currentQuality,
      reason |-> "error_recovery"]

\* The networkStatus field of the returned object is left out: it is a copy of
\* checkNetworkStatus and nothing reads it.
calculateQualityReduction(errorInfo, context, nav) ==
  LET currentQuality == IF context.currentQuality # {} THEN Value(context.currentQuality)
                        ELSE "high"
      currentIndex == indexOf(qualityLevels, currentQuality)
      networkStatus == checkNetworkStatus(nav)
      stepDown(otherwise) == IF currentIndex < Len(qualityLevels) - 1
                             THEN At(qualityLevels, currentIndex + 1) ELSE otherwise
  IN
  IF errorInfo.type = PERFORMANCE_ERROR
  THEN [from |-> currentQuality, to |-> stepDown("low"),
        reason |-> "performance_optimization"]
  ELSE IF errorInfo.type = NETWORK_ERROR
  THEN IF networkStatus.isSlowConnection
       THEN [from |-> currentQuality, to |-> "low", reason |-> "network_optimization"]
       ELSE [from |-> currentQuality, to |-> stepDown(currentQuality),
             reason |-> "error_recovery"]
  ELSE [from |-> currentQuality, to |-> currentQuality, reason |-> "error_recovery"]

\* The action object returned and the retryCount left behind.  The fields jitter,
\* networkStatus and currentQuality record what the call read: Math.random, the
\* network monitor (for a network error below the retry limit) and
\* context.currentQuality.
executeRecoveryStrategy(strategy, errorInfo, context, nav, jitter) ==
  LET readsNetwork == errorInfo.type = NETWORK_ERROR /\ errorInfo.retryCount < maxRetries
      action == [NoAction EXCEPT
                   !.strategy = strategy, !.errorInfo = errorInfo,
                   !.networkStatus =
                      IF readsNetwork
                      THEN Some([isOnline |-> checkNetworkStatus(nav).isOnline,
                                 isSlowConnection |-> checkNetworkStatus(nav).isSlowConnection])
                      ELSE None]
  IN
  CASE strategy = RETRY ->
         [action |-> [action EXCEPT !.delay = Some(calculateRetryDelay(jitter)),
                                    !.jitter = Some(jitter)],
          retryCount |-> retryCount + 1]
    [] strategy = REDUCE_QUALITY ->
         [action |-> [action EXCEPT
                        !.qualityReduction = Some(calculateQualityReduction(errorInfo, context, nav)),
                        !.currentQuality = context.currentQuality],
          retryCount |-> retryCount]
    [] strategy = STATIC_BACKGROUND ->
         [action |-> [action EXCEPT !.fallbackType = Some("static")],
          retryCount |-> retryCount]
    [] strategy = DISABLE_VIDEO ->
         [action |-> [action EXCEPT !.fallbackType = Some("disabled")],
          retryCount |-> retryCount]
    [] OTHER -> [action |-> action, retryCount |-> retryCount]

---------------------------------------------------------------------------
(* The failures reported and the ambient states they are reported in *)

Error(words) == [message |-> words]

Context(videoElement, networkInfo, loadTime, stallCount) ==
  [videoElement |-> videoElement, networkInfo |-> networkInfo,
   loadTime |-> loadTime, stallCount |-> stallCount, currentQuality |-> None]

VideoElement(error) == [error |-> error]

Failure(error, context) == [error |-> error, context |-> context]

Failures ==
  { Failure(Error({"network", "fetch"}), Context(None, None, None, None)),
    Failure(Error({"media_err_src_not_supported"}),
            Context(Some(VideoElement(Some(4))), None, None, None)),
    Failure(Error({}), Context(Some(VideoElement(None)), None, Some(15000), None)),
    Failure(Error({}), Context(Some(VideoElement(Some(2))), None, None, None)),
    Failure(Error({}), Context(None, None, None, None)),
    Failure(Error({"timeout", "decode"}),
            Context(Some(VideoElement(Some(3))), None, None, Some(4))) }

Navigators ==
  { Ambient(FALSE, None, None, None),
    Ambient(TRUE, Some(Connection(Some("4g"), Some(100))), None, None),
    Ambient(TRUE, Some(Connection(Some("2g"), Some(10))), None, None),
    Ambient(TRUE, Some(Connection(None, Some(10))), None, Some(1)) }

\* context.currentQuality as the caller passes it
Qualities == {None, Some("high"), Some("medium"), Some("low")}

\* the failures and ambient states of a run of network failures
NetworkFailures ==
  { Failure(Error({"network", "fetch"}), Context(None, None, None, None)),
    Failure(Error({}), Context(None, None, None, None)) }

SessionNavigators ==
  { Ambient(FALSE, None, None, None),
    Ambient(TRUE, Some(Connection(Some("4g"), Some(100))), None, None),
    Ambient(TRUE, Some(Connection(Some("2g"), Some(10))), None, None) }

\* what calculateRetryDelay draws; no other strategy calls Math.random
JitterDraws(strategy, jitters) == IF strategy = RETRY THEN jitters ELSE {0}

\* context.currentQuality is read by calculateQualityReduction only
QualityInputs(strategy, qualities) == IF strategy = REDUCE_QUALITY THEN qualities ELSE {None}

---------------------------------------------------------------------------
(* Operations of one handler, each run to completion: the awaits of        *)
(* handleError resolve without another call of the handler running in      *)
(* between, and navigator is read in one and the same task.                *)

handleErrorWith(failures, navigators, qualities, jitters) ==
  /\ \E failure \in failures, nav \in navigators :
       LET errorType == classifyError(failure.error, failure.context, nav)
           errorInfo == [type |-> errorType, retryCount |-> retryCount]
           strategy == determineRecoveryStrategy(errorInfo, nav)
       IN \E jitter \in JitterDraws(strategy, jitters),
             quality \in QualityInputs(strategy, qualities) :
            LET context == [failure.context EXCEPT !.currentQuality = quality]
                done == executeRecoveryStrategy(strategy, errorInfo, context, nav, jitter)
            IN /\ errorHistory' = Append(errorHistory, errorInfo)
               /\ retryCount' = done.retryCount
               /\ last' = done.action
               /\ retryLog' = IF strategy = RETRY
                              THEN Append(retryLog, calculateRetryDelay(0))
                              ELSE retryLog
  /\ op' = "handleError"
  /\ thrown' = None
  /\ UNCHANGED <<maxRetries, retryDelay, performanceThreshold, networkTimeout,
                 performanceMetrics, probe, pending>>
  /\ UNCHANGED <<sourceVars, monitor, timers, pushed, component>>

handleError ==
  /\ Len(errorHistory) < MaxErrors
  /\ handleErrorWith(Failures, Navigators, Qualities, RandomJitter)

\* variant: reset also starts a new error history
resetClearsHistory ==
  /\ retryCount' = 0
  /\ performanceMetrics' = freshMetrics
  /\ errorHistory' = <<>>
  /\ op' = "reset"
  /\ retryLog' = <<>>
  /\ UNCHANGED <<maxRetries, retryDelay, performanceThreshold, networkTimeout, last, probe,
                 thrown, pending>>
  /\ UNCHANGED <<sourceVars, monitor, timers, pushed, component>>

reset ==
  /\ retryCount' = 0
  /\ performanceMetrics' = freshMetrics
  /\ op' = "reset"
  /\ retryLog' = <<>>
  /\ UNCHANGED <<maxRetries, retryDelay, performanceThreshold, networkTimeout,
                 errorHistory, last, probe, thrown, pending>>
  /\ UNCHANGED <<sourceVars, monitor, timers, pushed, component>>

\* variant: a successful load also drops the oldest record of the history
recordSuccessfulLoadTrimsHistory ==
  /\ pushed.loadTimes < MaxRecorded
  /\ performanceMetrics' = [performanceMetrics EXCEPT !.firstFrameTime = Some(0)]
  /\ monitor' = monitor
  /\ pushed' = pushed
  /\ errorHistory' = IF errorHistory = <<>> THEN <<>> ELSE Tail(errorHistory)
  /\ retryCount' = 0
  /\ op' = "recordSuccessfulLoad"
  /\ retryLog' = <<>>
  /\ UNCHANGED <<maxRetries, retryDelay, performanceThreshold, networkTimeout,
                 last, probe, thrown, pending>>
  /\ UNCHANGED <<sourceVars, timers, component>>

\* loadTime = Date.now() - (loadStartTime || Date.now()); no load is being timed
\* in these runs, so loadStartTime is null and loadTime is 0.  The sample that
\* performanceMonitor.recordLoadSuccess appends goes to the monitor's own
\* buffer, which no operation of the handler reads: the buffers are followed
\* in the specification of the monitor only.
recordSuccessfulLoad ==
  /\ pushed.loadTimes < MaxRecorded
  /\ performanceMetrics' = [performanceMetrics EXCEPT !.firstFrameTime = Some(0)]
  /\ monitor' = IF monitor = None THEN None
                ELSE Some(recordLoadSuccess(Value(monitor), [loadTime |-> 0],
                                            pushed.loadTimes + 1))
  /\ pushed' = IF monitor = None THEN pushed
               ELSE [pushed EXCEPT !.loadTimes = pushed.loadTimes + 1]
  /\ retryCount' = 0
  /\ op' = "recordSuccessfulLoad"
  /\ retryLog' = <<>>
  /\ UNCHANGED <<maxRetries, retryDelay, performanceThreshold, networkTimeout,
                 errorHistory, last, probe, thrown, pending>>
  /\ UNCHANGED <<sourceVars, timers, component>>

---------------------------------------------------------------------------
(* config/videoConfig.js                                                   *)
(* A pixel ratio is counted in tenths (25 is 2.5), a battery level in      *)
(* hundredths (20 is 0.2).  A src is the pair <<baseUrl, file>> that the   *)
(* template `${baseUrl}${file}` concatenates.                              *)

VIDEO_QUALITY_TIERS == [LOW |-> "low", MEDIUM |-> "medium", HIGH |-> "high"]

DEVICE_TYPES == [MOBILE |-> "mobile", TABLET |-> "tablet", DESKTOP |-> "desktop"]

CONNECTION_TYPES ==
  [SLOW_2G |-> "slow-2g", TWO_G |-> "2g", THREE_G |-> "3g", FOUR_G |-> "4g", WIFI |-> "wifi"]

Tiers == {VIDEO_QUALITY_TIERS.LOW, VIDEO_QUALITY_TIERS.MEDIUM, VIDEO_QUALITY_TIERS.HIGH}

DeviceClasses == {DEVICE_TYPES.MOBILE, DEVICE_TYPES.TABLET, DEVICE_TYPES.DESKTOP}

\* object[key]: undefined when the object has no such key
Lookup(object, key) == IF key \in DOMAIN object THEN Some(object[key]) ELSE None

\* one entry of the catalog
Entry(mp4, webm) == [mp4 |-> mp4, webm |-> webm, resolution |-> "auto", bitrate |-> "auto"]

\* the catalog as shipped: every tier of every device class names the same file
VIDEO_SOURCE_CONFIG ==
  [d \in DeviceClasses |->
     [q \in Tiers |-> Entry("background-video.mp4", "background-video.webm")]]

\* a rule of QUALITY_SELECTION_RULES: a tier (typeof 'string') or a tier per
\* device class (typeof 'object')
FixedTier(tier) == [typeof |-> "string", tier |-> tier, perDevice |-> <<>>]
PerDevice(mobile, tablet, desktop) ==
  [typeof |-> "object", tier |-> "",
   perDevice |-> [mobile |-> mobile, tablet |-> tablet, desktop |-> desktop]]

QUALITY_SELECTION_RULES ==
  [ \* the keys are CONNECTION_TYPES.SLOW_2G .. CONNECTION_TYPES.WIFI
    c \in {"slow-2g", "2g", "3g", "4g", "wifi"} |->
      CASE c = "slow-2g" -> FixedTier("low")
        [] c = "2g" -> FixedTier("low")
        [] c = "3g" -> PerDevice("medium", "medium", "medium")
        [] c = "4g" -> PerDevice("medium", "high", "high")
        [] c = "wifi" -> PerDevice("medium", "high", "high") ]

PRELOAD_STRATEGIES == [CONSERVATIVE |-> "none", METADATA |-> "metadata", AGGRESSIVE |-> "auto"]

PRELOAD_RULES ==
  [mobile |-> [c \in {"slow-2g", "2g", "3g", "4g", "wifi"} |->
                 IF c \in {"slow-2g", "2g"} THEN "none" ELSE "metadata"],
   tablet |-> [c \in {"slow-2g", "2g", "3g", "4g", "wifi"} |->
                 IF c \in {"slow-2g", "2g"} THEN "none"
                 ELSE IF c = "3g" THEN "metadata" ELSE "auto"],
   desktop |-> [c \in {"slow-2g", "2g", "3g", "4g", "wifi"} |->
                 IF c = "slow-2g" THEN "none"
                 ELSE IF c \in {"2g", "3g"} THEN "metadata" ELSE "auto"]]

DEFAULT_CONFIG ==
  [baseUrl |-> "/assets/", fallbackVideo |-> "background-video.mp4",
   posterImage |-> "video-poster.jpg"]

---------------------------------------------------------------------------
(* VideoSourceManager: what the constructor and updateCapabilities read    *)

\* window, navigator, performance and the BatteryManager, as far as the manager
\* reads them.  userAgent and platform are the sets of the pattern words they
\* contain, in lower case.
Window(innerWidth, devicePixelRatio, userAgent, platform, connection, webgl, deviceMemory, webkitThermalState, getBattery) ==
  [innerWidth |-> innerWidth, devicePixelRatio |-> devicePixelRatio,
   userAgent |-> userAgent, platform |-> platform, connection |-> connection,
   webgl |-> webgl, memory |-> None, deviceMemory |-> deviceMemory,
   webkitThermalState |-> webkitThermalState, getBattery |-> getBattery,
   battery |-> [level |-> 80, charging |-> FALSE]]

isMobileUserAgent(userAgent) ==
  \E word \in {"android", "webos", "iphone", "ipad", "ipod", "blackberry", "iemobile",
               "opera mini"} : Test(word, userAgent)

\* android(?!.*mobile): android with no "mobile" after it
isTabletUserAgent(userAgent) ==
  \/ \E word \in {"ipad", "tablet", "kindle", "silk"} : Test(word, userAgent)
  \/ (Test("android", userAgent) /\ ~Test("mobile", userAgent))

\* variant: the tablet test is made before the mobile test
detectDeviceTypeTabletFirst(w) ==
  LET width == w.innerWidth IN
  IF isTabletUserAgent(w.userAgent) \/ (width >= 768 /\ width <= 1199) THEN "tablet"
  ELSE IF isMobileUserAgent(w.userAgent) \/ width <= 767 THEN "mobile"
  ELSE "desktop"

detectDeviceType(w) ==
  LET width == w.innerWidth IN
  IF isMobileUserAgent(w.userAgent) \/ width <= 767 THEN "mobile"
  ELSE IF isTabletUserAgent(w.userAgent) \/ (width >= 768 /\ width <= 1199) THEN "tablet"
  ELSE "desktop"

\* downlink >= 10, >= 1.5, >= 0.15 Mbps, on a downlink in tenths
estimateConnectionSpeed(w, deviceType) ==
  LET fallback == IF deviceType = "desktop" THEN "4g" ELSE "3g" IN
  IF w.connection # {}
  THEN LET connection == Value(w.connection) IN
       IF connection.effectiveType # {} /\ Value(connection.effectiveType) # ""
       THEN Value(connection.effectiveType)
       ELSE IF TruthyNum(connection.downlink)
       THEN LET downlink == Value(connection.downlink) IN
            IF downlink >= 100 THEN "4g"
            ELSE IF downlink >= 15 THEN "3g"
            ELSE IF 10 * downlink >= 15 THEN "2g"
            ELSE "slow-2g"
       ELSE fallback
  ELSE fallback

supportsHardwareAcceleration(w) == w.webgl

getBatteryStatus(w) == [supported |-> w.getBattery, level |-> None, charging |-> None]

\* navigator.webkitThermalState || 'nominal'
getThermalState(w) ==
  IF w.webkitThermalState # {}
  THEN [supported |-> TRUE,
        state |-> IF Value(w.webkitThermalState) # "" THEN Value(w.webkitThermalState)
                  ELSE "nominal"]
  ELSE [supported |-> FALSE, state |-> "unknown"]

\* the object built from performance.memory has no deviceMemory property
getMemoryInfo(w) ==
  IF w.memory # {} THEN [supported |-> TRUE, deviceMemory |-> None]
  ELSE IF w.deviceMemory # {} THEN [supported |-> TRUE, deviceMemory |-> w.deviceMemory]
  ELSE [supported |-> FALSE, deviceMemory |-> None]

\* `this.deviceCapabilities || {}`: the capabilities read are the ones the
\* manager holds when the call is made, none inside the constructor
isLowEndDevice(deviceCapabilities, w) ==
  LET screenWidth == IF deviceCapabilities # {} THEN Some(Value(deviceCapabilities).screenWidth)
                     ELSE None
      pixelRatio == IF deviceCapabilities # {} THEN Some(Value(deviceCapabilities).pixelRatio)
                    ELSE None
      memoryInfo == getMemoryInfo(w)
  IN
  IF memoryInfo.supported /\ TruthyNum(memoryInfo.deviceMemory)
       /\ Value(memoryInfo.deviceMemory) < 2
  THEN TRUE
  ELSE IF TruthyNum(screenWidth) /\ TruthyNum(pixelRatio)
            /\ (Value(screenWidth) < 360
                  \/ (Value(screenWidth) < 768 /\ Value(pixelRatio) > 25))
  THEN TRUE
  ELSE IF ~supportsHardwareAcceleration(w) THEN TRUE
  ELSE FALSE

isMobileOS(w) ==
  \/ \E word \in {"android", "iphone", "ipad", "ipod", "windows phone", "blackberry",
                  "webos", "tizen", "kaios"} : Test(word, w.userAgent)
  \/ \E word \in {"iphone", "ipad", "ipod", "android", "arm"} : Test(word, w.platform)

getBrowserEngine(w) ==
  LET includes(word) == Test(word, w.userAgent) IN
  IF includes("webkit") /\ includes("chrome") THEN "blink"
  ELSE IF includes("webkit") /\ includes("safari") THEN "webkit"
  ELSE IF includes("gecko") /\ includes("firefox") THEN "gecko"
  ELSE IF includes("trident") \/ includes("edge") THEN "edgehtml"
  ELSE "unknown"

\* The fields videoCodecSupport, orientation, touchSupport, isRetina and
\* screenHeight are left out: no method of the manager reads them.
getDeviceCapabilities(deviceType, connectionSpeed, deviceCapabilities, w) ==
  [deviceType |-> deviceType,
   screenWidth |-> w.innerWidth,
   pixelRatio |-> OrDefault(w.devicePixelRatio, 10),
   connectionType |-> connectionSpeed,
   hardwareAcceleration |-> supportsHardwareAcceleration(w),
   batteryStatus |-> getBatteryStatus(w),
   thermalState |-> getThermalState(w),
   memoryInfo |-> getMemoryInfo(w),
   isLowEndDevice |-> isLowEndDevice(deviceCapabilities, w),
   isMobileOS |-> isMobileOS(w),
   browserEngine |-> getBrowserEngine(w)]

\* the three assignments of updateCapabilities, on the capabilities held before
Capabilities(deviceCapabilities, w) ==
  LET deviceType == detectDeviceType(w)
      connectionSpeed == estimateConnectionSpeed(w, deviceType)
  IN [deviceType |-> deviceType,
      connectionSpeed |-> connectionSpeed,
      deviceCapabilities |->
        getDeviceCapabilities(deviceType, connectionSpeed, deviceCapabilities, w)]

---------------------------------------------------------------------------
(* VideoSourceManager: source selection and video attributes               *)

\* variant: a connection type the rules do not name resolves to no tier
determineOptimalQualityNoFallback(deviceCapabilities, rules) ==
  LET deviceType == deviceCapabilities.deviceType
      connectionType == deviceCapabilities.connectionType
      qualityRule == Lookup(rules, connectionType)
  IN
  IF qualityRule = {} THEN ""
  ELSE IF Value(qualityRule).typeof = "string" THEN Value(qualityRule).tier
  ELSE Value(qualityRule).perDevice[deviceType]

determineOptimalQuality(deviceCapabilities, rules) ==
  LET deviceType == deviceCapabilities.deviceType
      connectionType == deviceCapabilities.connectionType
      pixelRatio == deviceCapabilities.pixelRatio
      qualityRule == Lookup(rules, connectionType)
  IN
  IF qualityRule # {} /\ Value(qualityRule).typeof = "string"
  THEN Value(qualityRule).tier
  ELSE IF qualityRule # {} /\ Value(qualityRule).typeof = "object"
            /\ Lookup(Value(qualityRule).perDevice, deviceType) \notin {None, Some("")}
  THEN LET quality == Value(qualityRule).perDevice[deviceType] IN
       IF /\ deviceType = DEVICE_TYPES.MOBILE
          /\ pixelRatio > 20
          /\ (connectionType = CONNECTION_TYPES.FOUR_G
                \/ connectionType = CONNECTION_TYPES.WIFI)
          /\ quality = VIDEO_QUALITY_TIERS.LOW
       THEN VIDEO_QUALITY_TIERS.MEDIUM
       ELSE quality
  ELSE VIDEO_QUALITY_TIERS.MEDIUM

\* variant: the tiers below the current one, the lowest first
getFallbackQualitiesAscending(currentQuality) ==
  IF currentQuality = VIDEO_QUALITY_TIERS.HIGH
  THEN <<VIDEO_QUALITY_TIERS.LOW, VIDEO_QUALITY_TIERS.MEDIUM>>
  ELSE IF currentQuality = VIDEO_QUALITY_TIERS.MEDIUM THEN <<VIDEO_QUALITY_TIERS.LOW>>
  ELSE <<>>

\* qualityOrder.slice(currentIndex + 1)
getFallbackQualities(currentQuality) ==
  LET qualityOrder == <<VIDEO_QUALITY_TIERS.HIGH, VIDEO_QUALITY_TIERS.MEDIUM,
                        VIDEO_QUALITY_TIERS.LOW>>
      currentIndex == indexOf(qualityOrder, currentQuality)
  IN SubSeq(qualityOrder, currentIndex + 2, Len(qualityOrder))

getFallbackSources(baseUrl) ==
  [thrown |-> None,
   webm |-> <<>>,
   mp4 |-> << [src |-> <<baseUrl, DEFAULT_CONFIG.fallbackVideo>>, type |-> "video/mp4",
               quality |-> "medium", resolution |-> "unknown", bitrate |-> ""] >>]

\* one source object of the list
Source(baseUrl, file, type, quality, entry) ==
  [src |-> <<baseUrl, file>>, type |-> type, quality |-> quality,
   resolution |-> entry.resolution, bitrate |-> entry.bitrate]

\* The forEach of lines 190-214 over the fallback qualities left.  Reading
\* primaryConfig.mp4 when the catalog has no entry for the primary tier throws a
\* TypeError, which ends the call.
RECURSIVE addFallbackSources(_, _, _, _, _)
addFallbackSources(sources, fallbackQualities, deviceConfig, primaryConfig, baseUrl) ==
  IF fallbackQualities = <<>> \/ sources.thrown # {} THEN sources
  ELSE
    LET fallbackQuality == Head(fallbackQualities)
        fallbackConfig == Lookup(deviceConfig, fallbackQuality)
        added ==
          IF fallbackConfig = {} THEN sources
          ELSE IF primaryConfig = {} THEN [sources EXCEPT !.thrown = Some("TypeError")]
          ELSE
            LET fallback == Value(fallbackConfig)
                primary == Value(primaryConfig)
            IN
            IF fallback.mp4 # primary.mp4
            THEN [sources EXCEPT
                    !.webm = IF fallback.webm # fallback.mp4 /\ fallback.webm # primary.webm
                             THEN Append(@, Source(baseUrl, fallback.webm, "video/webm",
                                                   fallbackQuality, fallback))
                             ELSE @,
                    !.mp4 = Append(@, Source(baseUrl, fallback.mp4, "video/mp4",
                                             fallbackQuality, fallback))]
            ELSE sources
    IN addFallbackSources(added, Tail(fallbackQualities), deviceConfig, primaryConfig, baseUrl)

getDeviceSpecificSources(baseUrl, quality, deviceType, catalog) ==
  LET deviceConfig == Lookup(catalog, deviceType) IN
  IF deviceConfig = {} THEN getFallbackSources(baseUrl)
  ELSE
    LET primaryConfig == Lookup(Value(deviceConfig), quality)
        primarySources ==
          IF primaryConfig # {}
          THEN LET primary == Value(primaryConfig) IN
               [thrown |-> None,
                webm |-> IF primary.webm # primary.mp4
                         THEN << Source(baseUrl, primary.webm, "video/webm", quality, primary) >>
                         ELSE <<>>,
                mp4 |-> << Source(baseUrl, primary.mp4, "video/mp4", quality, primary) >>]
          ELSE [thrown |-> None, webm |-> <<>>, mp4 |-> <<>>]
    IN
    IF quality # VIDEO_QUALITY_TIERS.LOW
    THEN addFallbackSources(primarySources, getFallbackQualities(quality),
                            Value(deviceConfig), primaryConfig, baseUrl)
    ELSE primarySources

\* process.env.REACT_APP_VIDEO_BASE_URL is not set: baseUrl is '/assets/'.
\* The result: the tier resolved, the list returned, and the exception when the
\* call ended with one.
getOptimalVideoSources(m, cfg) ==
  LET baseUrl == "/assets/"
      quality == determineOptimalQuality(m.deviceCapabilities, cfg.rules)
      deviceSources == getDeviceSpecificSources(baseUrl, quality, m.deviceType, cfg.catalog)
  IN [quality |-> quality,
      thrown |-> deviceSources.thrown,
      sources |-> IF deviceSources.thrown = {} THEN deviceSources.mp4 ELSE <<>>]

getPreloadStrategy(deviceCapabilities) ==
  LET deviceRules == Lookup(PRELOAD_RULES, deviceCapabilities.deviceType) IN
  IF deviceRules # {}
       /\ Lookup(Value(deviceRules), deviceCapabilities.connectionType) \notin {None, Some("")}
  THEN Value(deviceRules)[deviceCapabilities.connectionType]
  ELSE "metadata"

\* a video attributes object: every attribute is there or not
NoAttributes ==
  [playsInline |-> None, muted |-> None, autoPlay |-> None, loop |-> None,
   preload |-> None, controls |-> None, poster |-> None,
   webkitPlaysinline |-> None, xWebkitAirplay |-> None]

getMobileOptimizedVideoAttributes(m) ==
  LET caps == m.deviceCapabilities
      batteryStatus == caps.batteryStatus
      thermalState == caps.thermalState
      basic == [NoAttributes EXCEPT !.playsInline = Some(TRUE), !.muted = Some(TRUE),
                                    !.autoPlay = Some(TRUE), !.loop = Some(TRUE)]
      safari == IF caps.browserEngine = "webkit"
                THEN [basic EXCEPT !.webkitPlaysinline = Some(TRUE),
                                   !.xWebkitAirplay = Some("deny"),
                                   !.controls = Some(FALSE)]
                ELSE basic
      chrome == IF caps.browserEngine = "blink"
                THEN [safari EXCEPT !.preload = Some(getPreloadStrategy(caps))]
                ELSE safari
      battery == IF /\ batteryStatus.supported
                    /\ batteryStatus.level # {}
                    /\ Value(batteryStatus.level) < 20
                    /\ batteryStatus.charging # Some(TRUE)
                 THEN [chrome EXCEPT !.preload = Some("none"), !.autoPlay = Some(FALSE)]
                 ELSE chrome
      thermal == IF thermalState.supported /\ thermalState.state # "nominal"
                 THEN [battery EXCEPT !.preload = Some("none"),
                                      !.autoPlay = IF thermalState.state = "critical"
                                                   THEN Some(FALSE) ELSE @]
                 ELSE battery
      lowEnd == IF caps.isLowEndDevice
                THEN [thermal EXCEPT !.preload = Some("none"),
                                     !.poster = Some(<<m.baseUrl, "video-poster.jpg">>)]
                ELSE thermal
  IN IF caps.deviceType = DEVICE_TYPES.MOBILE \/ caps.isMobileOS THEN lowEnd ELSE NoAttributes

\* { ...baseAttributes, ...mobileAttributes }: an attribute of the second object
\* replaces the one of the first
spread(first, second) ==
  LET pick(a, b) == IF b # {} THEN b ELSE a IN
  [playsInline |-> pick(first.playsInline, second.playsInline),
   muted |-> pick(first.muted, second.muted),
   autoPlay |-> pick(first.autoPlay, second.autoPlay),
   loop |-> pick(first.loop, second.loop),
   preload |-> pick(first.preload, second.preload),
   controls |-> pick(first.controls, second.controls),
   poster |-> pick(first.poster, second.poster),
   webkitPlaysinline |-> pick(first.webkitPlaysinline, second.webkitPlaysinline),
   xWebkitAirplay |-> pick(first.xWebkitAirplay, second.xWebkitAirplay)]

\* ResponsiveVideoBackground.getPreloadStrategy:
\* sourceManagerRef.current?.getPreloadStrategy() || 'metadata'
componentPreloadStrategy(sourceManager) ==
  IF sourceManager # {} THEN getPreloadStrategy(Value(sourceManager).deviceCapabilities)
  ELSE "metadata"

baseAttributes(sourceManager) ==
  [NoAttributes EXCEPT
     !.autoPlay = Some(TRUE), !.loop = Some(TRUE), !.muted = Some(TRUE),
     !.playsInline = Some(TRUE), !.preload = Some(componentPreloadStrategy(sourceManager))]

\* variant: the spread puts the base attributes last
getVideoAttributesBaseWins(sourceManager) ==
  IF sourceManager # {}
  THEN spread(getMobileOptimizedVideoAttributes(Value(sourceManager)),
              baseAttributes(sourceManager))
  ELSE baseAttributes(sourceManager)

\* ResponsiveVideoBackground.getVideoAttributes: the attributes spread on the
\* <video>; sourceManagerRef.current is the manager, null before it is built
getVideoAttributes(sourceManager) ==
  IF sourceManager # {}
  THEN spread(baseAttributes(sourceManager),
              getMobileOptimizedVideoAttributes(Value(sourceManager)))
  ELSE baseAttributes(sourceManager)

---------------------------------------------------------------------------
(* The environments and configurations of the VideoSourceManager           *)

desktopChrome == {"webkit", "chrome", "safari"}
desktopFirefox == {"gecko", "firefox"}
androidPhone == {"android", "mobile", "webkit", "chrome", "safari"}
iPhone == {"iphone", "mobile", "webkit", "safari"}

Envs ==
  { [Window(1400, None, desktopChrome, {}, Some(Connection(Some("4g"), Some(100))),
            TRUE, Some(1), None, TRUE)
       EXCEPT !.memory = Some([usedJSHeapSize |-> 5, jsHeapSizeLimit |-> 10])],
    Window(1400, Some(10), desktopFirefox, {}, None, FALSE, None, None, FALSE),
    Window(800, Some(20), desktopChrome, {}, Some(Connection(Some("3g"), Some(20))),
           TRUE, Some(8), None, TRUE),
    Window(1400, Some(10), desktopChrome, {}, Some(Connection(None, Some(20))),
           TRUE, Some(8), None, FALSE),
    Window(1400, Some(10), desktopChrome, {}, Some(Connection(Some("5g"), Some(500))),
           TRUE, Some(8), None, TRUE),
    Window(1400, Some(10), desktopChrome, {}, Some(Connection(Some("slow-2g"), Some(1))),
           TRUE, Some(8), None, FALSE),
    Window(360, Some(30), androidPhone, {"arm"}, Some(Connection(Some("4g"), Some(100))),
           TRUE, Some(4), None, TRUE),
    Window(320, Some(30), androidPhone, {"arm"}, Some(Connection(Some("wifi"), Some(100))),
           TRUE, Some(4), None, TRUE),
    Window(320, Some(20), androidPhone, {"arm"}, Some(Connection(Some("slow-2g"), Some(1))),
           TRUE, Some(1), None, FALSE),
    Window(390, Some(30), iPhone, {"iphone"}, None, TRUE, None, Some("serious"), FALSE),
    Window(390, Some(30), iPhone, {"iphone"}, None, TRUE, None, Some(""), FALSE) }

\* a catalog with a file of its own for every tier
TieredCatalog ==
  [d \in DeviceClasses |->
     [q \in Tiers |-> CASE q = "high" -> Entry("video-1080.mp4", "video-1080.webm")
                        [] q = "medium" -> Entry("video-720.mp4", "video-720.webm")
                        [] q = "low" -> Entry("video-480.mp4", "video-480.webm")]]

\* a catalog whose two lower tiers share a file
SharedLowerCatalog ==
  [d \in DeviceClasses |->
     [q \in Tiers |-> IF q = "high" THEN Entry("video-1080.mp4", "video-1080.webm")
                      ELSE Entry("video-480.mp4", "video-480.webm")]]

\* a catalog that defines one tier per device class
PartialCatalog ==
  [mobile |-> [high |-> Entry("video-1080.mp4", "video-1080.webm")],
   tablet |-> [medium |-> Entry("video-720.mp4", "video-720.webm")],
   desktop |-> [low |-> Entry("video-480.mp4", "video-480.webm")]]

\* rules whose 4g entry is a fixed tier
FixedLowRules == [QUALITY_SELECTION_RULES EXCEPT !["4g"] = FixedTier("low")]

\* rules whose 4g and wifi entries give low to mobile devices
MobileLowRules ==
  [QUALITY_SELECTION_RULES EXCEPT !["4g"] = PerDevice("low", "high", "high"),
                                  !["wifi"] = PerDevice("low", "high", "high")]

Config(catalog, rules) == [catalog |-> catalog, rules |-> rules]

Configs ==
  { Config(VIDEO_SOURCE_CONFIG, QUALITY_SELECTION_RULES),
    Config(TieredCatalog, QUALITY_SELECTION_RULES),
    Config(SharedLowerCatalog, QUALITY_SELECTION_RULES),
    Config(PartialCatalog, QUALITY_SELECTION_RULES),
    Config(VIDEO_SOURCE_CONFIG, FixedLowRules),
    Config(TieredCatalog, MobileLowRules),
    \* a catalog with no entry for the device classes mobile and tablet
    Config([desktop |-> TieredCatalog.desktop], QUALITY_SELECTION_RULES) }

\* battery.level, in hundredths
BatteryLevels == {10, 80}

\* nothing was called on the manager yet
NoCall ==
  [call |-> "", quality |-> "", sources |-> None, again |-> FALSE, thrown |-> None,
   attributes |-> None]

\* the handler runs without a VideoSourceManager
NoSourceManager ==
  /\ env = Window(1400, Some(10), desktopFirefox, {}, None, FALSE, None, None, FALSE)
  /\ config = Config(VIDEO_SOURCE_CONFIG, QUALITY_SELECTION_RULES)
  /\ manager = None
  /\ out = NoCall

---------------------------------------------------------------------------
(* The specifications of the handler *)

\* no classifyError call is being probed
NoProbe ==
  [called |-> FALSE, error |-> Error({}), context |-> Context(None, None, None, None),
   nav |-> Ambient(TRUE, None, None, None), result |-> ""]

Init ==
  /\ InitHandler
  /\ probe = NoProbe
  /\ thrown = None
  /\ pending = <<>>
  /\ NoSourceManager
  /\ monitor = None
  /\ timers = 0
  /\ pushed = [loadTimes |-> 0, stallEvents |-> 0, memoryUsage |-> 0]
  /\ component = None

Next == handleError \/ reset \/ recordSuccessfulLoad

Spec == Init /\ [][Next]_vars

---------------------------------------------------------------------------
(* Long runs of network failures on a handler built with the default options *)

networkError ==
  /\ Len(errorHistory) < MaxSession
  /\ handleErrorWith(NetworkFailures, SessionNavigators, {None}, RandomJitter)

InitSession == Init /\ maxRetries = DefaultMaxRetries /\ retryDelay = DefaultRetryDelay

NextSession == networkError \/ reset \/ recordSuccessfulLoad

SpecSession == InitSession /\ [][NextSession]_vars

---------------------------------------------------------------------------
(* classifyError called on its own, over its inputs *)

ProbeMessages ==
  { {}, {"network"}, {"timeout"}, {"codec"}, {"timeout", "decode"},
    {"media_err_src_not_supported"} }

ProbeVideoElements ==
  { None, Some(VideoElement(None)), Some(VideoElement(Some(2))),
    Some(VideoElement(Some(3))), Some(VideoElement(Some(4))) }

ProbeNetworkInfos == { None, Some([effectiveType |-> "slow-2g"]), Some([effectiveType |-> "4g"]) }

ProbeLoadTimes == { None, Some(0), Some(5000), Some(5001), Some(10001), Some(20001) }

ProbeStallCounts == { None, Some(3), Some(4) }

ProbeNavigators ==
  { Ambient(onLine, None, memory, deviceMemory) :
      onLine \in BOOLEAN,
      memory \in { None, Some([usedJSHeapSize |-> 8, jsHeapSizeLimit |-> 10]),
                   Some([usedJSHeapSize |-> 9, jsHeapSizeLimit |-> 10]) },
      deviceMemory \in { None, Some(1), Some(2) } }

\* The handler is constructed with one of Options or with a
\* performanceThreshold equal to the default networkTimeout.
InitClassify ==
  /\ \E options \in Options \cup
                      {[maxRetries |-> None, retryDelay |-> None,
                        performanceThreshold |-> Some(DefaultNetworkTimeout),
                        networkTimeout |-> None]} :
       /\ maxRetries = OrDefault(options.maxRetries, DefaultMaxRetries)
       /\ retryDelay = OrDefault(options.retryDelay, DefaultRetryDelay)
       /\ performanceThreshold =
            OrDefault(options.performanceThreshold, DefaultPerformanceThreshold)
       /\ networkTimeout = OrDefault(options.networkTimeout, DefaultNetworkTimeout)
  /\ errorHistory = <<>>
  /\ retryCount = 0
  /\ performanceMetrics = freshMetrics
  /\ op = "constructor"
  /\ last = NoAction
  /\ retryLog = <<>>
  /\ thrown = None
  /\ pending = <<>>
  /\ NoSourceManager
  /\ monitor = None
  /\ timers = 0
  /\ pushed = [loadTimes |-> 0, stallEvents |-> 0, memoryUsage |-> 0]
  /\ component = None
  /\ \E words \in ProbeMessages, videoElement \in ProbeVideoElements,
        networkInfo \in ProbeNetworkInfos, loadTime \in ProbeLoadTimes,
        stallCount \in ProbeStallCounts, nav \in ProbeNavigators :
       probe = [called |-> FALSE, error |-> Error(words),
                context |-> Context(videoElement, networkInfo, loadTime, stallCount),
                nav |-> nav, result |-> ""]

classify ==
  /\ ~probe.called
  /\ probe' = [probe EXCEPT !.called = TRUE,
                            !.result = classifyError(probe.error, probe.context, probe.nav)]
  /\ UNCHANGED handlerVars
  /\ UNCHANGED <<thrown, pending>>
  /\ UNCHANGED <<sourceVars, monitor, timers, pushed, component>>

NextClassify == classify

SpecClassify == InitClassify /\ [][NextClassify]_vars

---------------------------------------------------------------------------
(* handleError called with arguments that are not objects                  *)

\* an argument of a call: null, undefined or an object
Null == [is |-> "null", object |-> None]
Undefined == [is |-> "undefined", object |-> None]
Object(o) == [is |-> "object", object |-> Some(o)]

\* `context = {}`: the default replaces undefined, not null
DefaultContext(context) ==
  IF context.is = "undefined" THEN Object(Context(None, None, None, None)) ELSE context

\* `const { videoElement, networkInfo } = context` (line 77) throws a TypeError
\* on null; `error.message` (line 125) throws one on null and on undefined.
\* Nothing in handleError catches it.
handleErrorThrows(error, context) ==
  IF DefaultContext(context).is = "null" THEN Some("TypeError")
  ELSE IF error.is # "object" THEN Some("TypeError")
  ELSE None

\* the error and context arguments of the calls
ErrorArguments == { Null, Undefined, Object(Error({"network", "fetch"})), Object(Error({})) }

ContextArguments ==
  { Null, Undefined, Object(Context(Some(VideoElement(Some(4))), None, None, None)) }

\* calls of handleError in one run
MaxReports == 3

\* handleError(error, context), awaited by its caller
reportFailure ==
  /\ Len(errorHistory) < MaxReports
  /\ \E error \in ErrorArguments, context \in ContextArguments :
       IF handleErrorThrows(error, context) # {}
       THEN /\ thrown' = handleErrorThrows(error, context)
            /\ op' = "handleError"
            /\ UNCHANGED <<maxRetries, retryDelay, performanceThreshold, networkTimeout,
                           errorHistory, retryCount, performanceMetrics, last, retryLog,
                           probe, pending>>
            /\ UNCHANGED <<sourceVars, monitor, timers, pushed, component>>
       ELSE handleErrorWith({ Failure(Value(error.object),
                                      Value(DefaultContext(context).object)) },
                            SessionNavigators, {None}, RandomJitter)

NextReport == reportFailure \/ reset \/ recordSuccessfulLoad

SpecReport == InitSession /\ [][NextReport]_vars

---------------------------------------------------------------------------
(* handleError called again while an earlier call is suspended.            *)
(* The caller does not await the promise: the second call runs its         *)
(* synchronous part while the first waits in the microtask queue.          *)

\* calls of handleError in one run of overlapping calls
MaxOverlap == 3

\* calls suspended at one time
MaxPending == 2

\* The microtasks until the `await` of line 65 resumes: one when
\* determineRecoveryStrategy returns without awaiting, three when it awaits
\* getNetworkErrorStrategy (line 226), which awaits checkNetworkStatus (line 250).
Awaits(errorInfo) ==
  IF errorInfo.retryCount < maxRetries /\ errorInfo.type = NETWORK_ERROR THEN 3 ELSE 1

\* Lines 52-65 up to the await: classification, recording, and the reads of
\* determineRecoveryStrategy (retry limit, network status), all in one task.
handleErrorBegin ==
  /\ Len(errorHistory) < MaxOverlap
  /\ Len(pending) < MaxPending
  /\ \E failure \in NetworkFailures, nav \in SessionNavigators :
       LET errorType == classifyError(failure.error, failure.context, nav)
           errorInfo == [type |-> errorType, retryCount |-> retryCount]
           strategy == determineRecoveryStrategy(errorInfo, nav)
       IN /\ errorHistory' = Append(errorHistory, errorInfo)
          /\ pending' = Append(pending, [errorInfo |-> errorInfo, strategy |-> strategy,
                                         context |-> failure.context, nav |-> nav,
                                         awaits |-> Awaits(errorInfo)])
  /\ op' = "handleError"
  /\ UNCHANGED <<maxRetries, retryDelay, performanceThreshold, networkTimeout,
                 retryCount, performanceMetrics, last, retryLog, probe, thrown>>
  /\ UNCHANGED <<sourceVars, monitor, timers, pushed, component>>

\* The microtask at the head of the queue runs.  The last one of a call resumes
\* handleError at line 65 and runs executeRecoveryStrategy on the retryCount
\* the handler has by then.
microtask ==
  /\ pending # <<>>
  /\ LET call == Head(pending) IN
     IF call.awaits > 1
     THEN /\ pending' = Append(Tail(pending), [call EXCEPT !.awaits = @ - 1])
          /\ UNCHANGED <<retryCount, last, retryLog, op>>
     ELSE \E jitter \in JitterDraws(call.strategy, RandomJitter) :
            LET done == executeRecoveryStrategy(call.strategy, call.errorInfo,
                                                call.context, call.nav, jitter)
            IN /\ pending' = Tail(pending)
               /\ retryCount' = done.retryCount
               /\ last' = done.action
               /\ retryLog' = IF call.strategy = RETRY
                              THEN Append(retryLog, calculateRetryDelay(0))
                              ELSE retryLog
               /\ op' = "handleError resumed"
  /\ UNCHANGED <<maxRetries, retryDelay, performanceThreshold, networkTimeout,
                 errorHistory, performanceMetrics, probe, thrown>>
  /\ UNCHANGED <<sourceVars, monitor, timers, pushed, component>>

NextOverlap == handleErrorBegin \/ microtask \/ reset

SpecOverlap == Init /\ [][NextOverlap]_vars

---------------------------------------------------------------------------
(* Operations of one VideoSourceManager and the events of its environment  *)

\* new VideoSourceManager(); process.env.REACT_APP_VIDEO_BASE_URL is not set.
\* listening: the listeners initializeBatteryMonitoring added are in place.
construct ==
  /\ manager = None
  /\ manager' = Some(Capabilities(None, env) @@
                     [baseUrl |-> DEFAULT_CONFIG.baseUrl, listening |-> FALSE])
  /\ out' = [NoCall EXCEPT !.call = "constructor"]
  /\ UNCHANGED <<env, config>>
  /\ UNCHANGED <<handlerVars, probe, thrown, pending, monitor, timers, pushed, component>>

updateCapabilities ==
  /\ manager # None
  /\ LET m == Value(manager)
         read == Capabilities(Some(m.deviceCapabilities), env)
     IN manager' = Some([m EXCEPT !.deviceType = read.deviceType,
                                  !.connectionSpeed = read.connectionSpeed,
                                  !.deviceCapabilities = read.deviceCapabilities])
  /\ out' = [NoCall EXCEPT !.call = "updateCapabilities"]
  /\ UNCHANGED <<env, config>>
  /\ UNCHANGED <<handlerVars, probe, thrown, pending, monitor, timers, pushed, component>>

\* variant: the selection reads the capabilities anew before it selects
getOptimalVideoSourcesCallRefreshing ==
  /\ manager # None
  /\ LET m == Value(manager)
         read == Capabilities(Some(m.deviceCapabilities), env)
         fresh == [m EXCEPT !.deviceType = read.deviceType,
                            !.connectionSpeed = read.connectionSpeed,
                            !.deviceCapabilities = read.deviceCapabilities]
         result == getOptimalVideoSources(fresh, config)
     IN /\ manager' = Some(fresh)
        /\ out' = [out EXCEPT !.call = "getOptimalVideoSources",
                              !.quality = result.quality,
                              !.sources = IF result.thrown = {} THEN Some(result.sources)
                                          ELSE None,
                              !.again = out.sources # None,
                              !.thrown = result.thrown]
  /\ UNCHANGED <<env, config>>
  /\ UNCHANGED <<handlerVars, probe, thrown, pending, monitor, timers, pushed, component>>

\* out.sources is the list returned, kept until the capabilities are read anew;
\* out.again: a list was returned before, since the capabilities were read
getOptimalVideoSourcesCall ==
  /\ manager # None
  /\ LET result == getOptimalVideoSources(Value(manager), config) IN
     out' = [out EXCEPT !.call = "getOptimalVideoSources",
                        !.quality = result.quality,
                        !.sources = IF result.thrown = {} THEN Some(result.sources) ELSE None,
                        !.again = out.sources # None,
                        !.thrown = result.thrown]
  /\ UNCHANGED <<env, config, manager>>
  /\ UNCHANGED <<handlerVars, probe, thrown, pending, monitor, timers, pushed, component>>

\* the component renders the <video> with getVideoAttributes()
getVideoAttributesCall ==
  /\ out' = [out EXCEPT !.call = "getVideoAttributes",
                        !.attributes = Some(getVideoAttributes(manager))]
  /\ UNCHANGED <<env, config, manager>>
  /\ UNCHANGED <<handlerVars, probe, thrown, pending, monitor, timers, pushed, component>>

\* The await of navigator.getBattery() resolves without another operation of
\* the manager running in between.
initializeBatteryMonitoring ==
  /\ manager # None
  /\ LET m == Value(manager) IN
     manager' = IF env.getBattery
                THEN Some([m EXCEPT !.deviceCapabilities.batteryStatus =
                                       [supported |-> TRUE,
                                        level |-> Some(env.battery.level),
                                        charging |-> Some(env.battery.charging)],
                                    !.listening = TRUE])
                ELSE manager
  /\ out' = [out EXCEPT !.call = "initializeBatteryMonitoring"]
  /\ UNCHANGED <<env, config>>
  /\ UNCHANGED <<handlerVars, probe, thrown, pending, monitor, timers, pushed, component>>

\* the battery level changes; the 'levelchange' listener writes it down
levelchange ==
  /\ \E level \in BatteryLevels \ {env.battery.level} :
       /\ env' = [env EXCEPT !.battery.level = level]
       /\ manager' = IF manager # None /\ Value(manager).listening
                     THEN Some([Value(manager) EXCEPT
                                  !.deviceCapabilities.batteryStatus.level = Some(level)])
                     ELSE manager
  /\ out' = [out EXCEPT !.call = "levelchange"]
  /\ UNCHANGED config
  /\ UNCHANGED <<handlerVars, probe, thrown, pending, monitor, timers, pushed, component>>

chargingchange ==
  /\ env' = [env EXCEPT !.battery.charging = ~env.battery.charging]
  /\ manager' = IF manager # None /\ Value(manager).listening
                THEN Some([Value(manager) EXCEPT
                             !.deviceCapabilities.batteryStatus.charging =
                                Some(~env.battery.charging)])
                ELSE manager
  /\ out' = [out EXCEPT !.call = "chargingchange"]
  /\ UNCHANGED config
  /\ UNCHANGED <<handlerVars, probe, thrown, pending, monitor, timers, pushed, component>>

\* the window is resized, the device is turned or the connection changes; the
\* manager reads the change when updateCapabilities is called
resize ==
  /\ \E w \in Envs :
       /\ [w EXCEPT !.battery = env.battery] # env
       /\ w.getBattery = env.getBattery
       /\ env' = [w EXCEPT !.battery = env.battery]
  /\ out' = [out EXCEPT !.call = "resize"]
  /\ UNCHANGED <<config, manager>>
  /\ UNCHANGED <<handlerVars, probe, thrown, pending, monitor, timers, pushed, component>>

InitSources ==
  /\ InitHandler
  /\ maxRetries = DefaultMaxRetries
  /\ retryDelay = DefaultRetryDelay
  /\ performanceThreshold = DefaultPerformanceThreshold
  /\ probe = NoProbe
  /\ thrown = None
  /\ pending = <<>>
  /\ env \in Envs
  /\ config \in Configs
  /\ manager = None
  /\ out = NoCall
  /\ monitor = None
  /\ timers = 0
  /\ pushed = [loadTimes |-> 0, stallEvents |-> 0, memoryUsage |-> 0]
  /\ component = None

NextSources ==
  \/ construct
  \/ updateCapabilities
  \/ getOptimalVideoSourcesCall
  \/ getVideoAttributesCall
  \/ initializeBatteryMonitoring
  \/ levelchange
  \/ chargingchange
  \/ resize

SpecSources == InitSources /\ [][NextSources]_vars

---------------------------------------------------------------------------
(* The capabilities a VideoSourceManager reads, over viewport widths on    *)
(* both sides of 767/768 and 1199/1200, user agents of every pattern and   *)
(* connections with and without an effective type and a downlink.          *)

InitCapabilities ==
  /\ InitHandler
  /\ maxRetries = DefaultMaxRetries
  /\ retryDelay = DefaultRetryDelay
  /\ performanceThreshold = DefaultPerformanceThreshold
  /\ probe = NoProbe
  /\ thrown = None
  /\ pending = <<>>
  /\ \E innerWidth \in {320, 767, 768, 1199, 1200},
        userAgent \in {desktopChrome, iPhone,
                       {"ipad", "mobile", "webkit", "safari"},
                       {"kindle", "silk", "webkit", "safari"},
                       {"android", "webkit", "chrome", "safari"}},
        connection \in {None} \cup
                       { Some(Connection(effectiveType, downlink)) :
                           effectiveType \in {None, Some("2g")},
                           downlink \in {None, Some(0), Some(1), Some(2), Some(14),
                                         Some(15), Some(99), Some(100)} } :
       env = Window(innerWidth, Some(10), userAgent, {}, connection, TRUE, Some(8), None, FALSE)
  /\ config = Config(VIDEO_SOURCE_CONFIG, QUALITY_SELECTION_RULES)
  /\ manager = None
  /\ out = NoCall
  /\ monitor = None
  /\ timers = 0
  /\ pushed = [loadTimes |-> 0, stallEvents |-> 0, memoryUsage |-> 0]
  /\ component = None

SpecCapabilities == InitCapabilities /\ [][construct \/ updateCapabilities]_vars

---------------------------------------------------------------------------
(* NetworkMonitor.checkNetworkStatus called on its own, over the states of *)
(* navigator.onLine and navigator.connection                               *)

ConnectionStates ==
  { Ambient(onLine, connection, None, None) :
      onLine \in BOOLEAN,
      connection \in {None} \cup
        { Some(Connection(effectiveType, downlink)) :
            effectiveType \in {None, Some("slow-2g"), Some("2g"), Some("3g"), Some("4g")},
            downlink \in {None, Some(0), Some(1), Some(14), Some(15), Some(100)} } }

InitNetwork ==
  /\ InitHandler
  /\ thrown = None
  /\ pending = <<>>
  /\ NoSourceManager
  /\ monitor = None
  /\ timers = 0
  /\ pushed = [loadTimes |-> 0, stallEvents |-> 0, memoryUsage |-> 0]
  /\ component = None
  /\ \E nav \in ConnectionStates : probe = [NoProbe EXCEPT !.nav = nav]

\* probe.result is the status returned
checkNetworkStatusCall ==
  /\ ~probe.called
  /\ probe' = [probe EXCEPT !.called = TRUE, !.result = checkNetworkStatus(probe.nav)]
  /\ UNCHANGED handlerVars
  /\ UNCHANGED <<thrown, pending>>
  /\ UNCHANGED <<sourceVars, monitor, timers, pushed, component>>

SpecNetwork == InitNetwork /\ [][checkNetworkStatusCall]_vars

---------------------------------------------------------------------------
(* Operations of one PerformanceMonitor, the one the handler constructs,   *)
(* and the handler's recordSuccessfulLoad, which feeds it                  *)

startMonitoring ==
  /\ monitor # None
  /\ timers < MaxTimers
  /\ LET m == [Value(monitor) EXCEPT !.isMonitoring = TRUE]
         run == monitorMemoryUsage(m, env, pushed.memoryUsage + 1)
     IN /\ pushed.memoryUsage < MaxRecorded
        /\ monitor' = Some(run.monitor)
        /\ pushed' = IF run.monitor.metrics.memoryUsage # m.metrics.memoryUsage
                     THEN [pushed EXCEPT !.memoryUsage = pushed.memoryUsage + 1]
                     ELSE pushed
        /\ timers' = IF run.setTimeout THEN timers + 1 ELSE timers
  /\ UNCHANGED <<handlerVars, probe, thrown, pending, sourceVars, component>>

stopMonitoring ==
  /\ monitor # None
  /\ monitor' = Some([Value(monitor) EXCEPT !.isMonitoring = FALSE])
  /\ UNCHANGED <<handlerVars, probe, thrown, pending, sourceVars, timers, pushed, component>>

\* recordStallEvent({}): the caller passes no field of its own
recordStallEvent ==
  /\ monitor # None
  /\ pushed.stallEvents < MaxRecorded
  /\ monitor' = Some([Value(monitor) EXCEPT
                        !.metrics.stallEvents = push(@, << >>, pushed.stallEvents + 1, 20)])
  /\ pushed' = [pushed EXCEPT !.stallEvents = pushed.stallEvents + 1]
  /\ UNCHANGED <<handlerVars, probe, thrown, pending, sourceVars, timers, component>>

\* a callback `() => this.monitorMemoryUsage()` set 5 seconds before runs
monitorMemoryUsageTimeout ==
  /\ monitor # None
  /\ timers > 0
  /\ LET m == Value(monitor)
         run == monitorMemoryUsage(m, env, pushed.memoryUsage + 1)
     IN /\ pushed.memoryUsage < MaxRecorded
        /\ monitor' = Some(run.monitor)
        /\ pushed' = IF run.monitor.metrics.memoryUsage # m.metrics.memoryUsage
                     THEN [pushed EXCEPT !.memoryUsage = pushed.memoryUsage + 1]
                     ELSE pushed
        /\ timers' = IF run.setTimeout THEN timers ELSE timers - 1
  /\ UNCHANGED <<handlerVars, probe, thrown, pending, sourceVars, component>>

\* new PerformanceMonitor(), in a browser with performance.memory or in one
\* without it
InitMonitor ==
  /\ InitHandler
  /\ maxRetries = DefaultMaxRetries
  /\ retryDelay = DefaultRetryDelay
  /\ performanceThreshold = DefaultPerformanceThreshold
  /\ probe = NoProbe
  /\ thrown = None
  /\ pending = <<>>
  /\ \E memory \in {None, Some([usedJSHeapSize |-> 5, jsHeapSizeLimit |-> 10])} :
       env = [Window(1400, Some(10), desktopChrome, {}, None, TRUE, None, None, FALSE)
                EXCEPT !.memory = memory]
  /\ config = Config(VIDEO_SOURCE_CONFIG, QUALITY_SELECTION_RULES)
  /\ manager = None
  /\ out = NoCall
  /\ monitor = Some([metrics |-> [loadTimes |-> <<>>, stallEvents |-> <<>>,
                                  memoryUsage |-> <<>>],
                      isMonitoring |-> FALSE])
  /\ timers = 0
  /\ pushed = [loadTimes |-> 0, stallEvents |-> 0, memoryUsage |-> 0]
  /\ component = None

NextMonitor ==
  \/ startMonitoring
  \/ stopMonitoring
  \/ recordSuccessfulLoad
  \/ recordStallEvent
  \/ monitorMemoryUsageTimeout

SpecMonitor == InitMonitor /\ [][NextMonitor]_vars

---------------------------------------------------------------------------
(* ResponsiveVideoBackground: one mounted component, from its first render *)
(* to its unmount.  Every handler runs on the state of the latest render.  *)

\* setTimeout calls of handleError in one run
MaxTimeouts == 2

\* The useState and useRef values of the first render.  initializing: the
\* effect of lines 28-44 is suspended at its await.  timeouts: the ids of the
\* retry timers not yet run or cleared; a timer id is the ordinal of its
\* setTimeout call.  event, callback, reload: the event whose handler ran
\* last, the prop callback it called, and whether it called
\* videoRef.current.load().
ResponsiveVideoBackground ==
  [mounted |-> TRUE, initializing |-> FALSE,
   loadingState |-> "initial", videoSources |-> <<>>, currentSourceIndex |-> 0,
   showFallback |-> TRUE, retryTimeoutRef |-> None, timeouts |-> {},
   event |-> "", callback |-> "", reload |-> FALSE]

\* initializeVideoManager up to `await ...initializeBatteryMonitoring()`
initializeVideoManager ==
  /\ component # None
  /\ manager = None
  /\ manager' = Some(Capabilities(None, env) @@
                     [baseUrl |-> DEFAULT_CONFIG.baseUrl, listening |-> FALSE])
  /\ component' = Some([Value(component) EXCEPT !.initializing = TRUE,
                          !.callback = "", !.event = "initialize", !.reload = FALSE])
  /\ UNCHANGED <<env, config, out>>
  /\ UNCHANGED <<handlerVars, probe, thrown, pending, monitor, timers, pushed>>

\* initializeBatteryMonitoring after its await, and initializeVideoManager
\* after its own: lines 35-36.  An exception of getOptimalVideoSources rejects
\* the promise of initializeVideoManager, which nothing awaits.  A state
\* update of an unmounted component is dropped.
initializeVideoManagerResume ==
  /\ component # None
  /\ Value(component).initializing
  /\ LET c == Value(component)
         m == IF env.getBattery
              THEN [Value(manager) EXCEPT !.deviceCapabilities.batteryStatus =
                                             [supported |-> TRUE,
                                              level |-> Some(env.battery.level),
                                              charging |-> Some(env.battery.charging)],
                                          !.listening = TRUE]
              ELSE Value(manager)
         sources == getOptimalVideoSources(m, config)
     IN /\ manager' = Some(m)
        /\ component' = Some([c EXCEPT
                                !.initializing = FALSE,
                                !.videoSources = IF sources.thrown = {} /\ c.mounted
                                                 THEN sources.sources ELSE @,
                                !.callback = "", !.event = "initialized", !.reload = FALSE])
  /\ UNCHANGED <<env, config, out>>
  /\ UNCHANGED <<handlerVars, probe, thrown, pending, monitor, timers, pushed>>

\* The window is resized or turned, or the connection changes, and the
\* debounced handler of 'resize' and 'orientationchange' runs.  An exception
\* of getOptimalVideoSources ends the handler.
handleResize ==
  /\ component # None
  /\ Value(component).mounted
  /\ \E w \in Envs :
       /\ w.getBattery = env.getBattery
       /\ env' = [w EXCEPT !.battery = env.battery]
       /\ LET c == Value(component) IN
          IF manager # None
          THEN LET read == Capabilities(Some(Value(manager).deviceCapabilities), env')
                   m == [Value(manager) EXCEPT !.deviceType = read.deviceType,
                                               !.connectionSpeed = read.connectionSpeed,
                                               !.deviceCapabilities = read.deviceCapabilities]
                   newSources == getOptimalVideoSources(m, config)
                   changed == newSources.thrown = {} /\ newSources.sources # c.videoSources
               IN /\ manager' = Some(m)
                  /\ component' = Some([c EXCEPT
                                          !.videoSources = IF changed THEN newSources.sources
                                                           ELSE @,
                                          !.currentSourceIndex = IF changed THEN 0 ELSE @,
                                          !.callback = "", !.event = "resize", !.reload = FALSE])
          ELSE /\ manager' = manager
               /\ component' = Some([c EXCEPT !.callback = "", !.event = "resize",
                                               !.reload = FALSE])
  /\ UNCHANGED <<config, out>>
  /\ UNCHANGED <<handlerVars, probe, thrown, pending, monitor, timers, pushed>>

\* 'loadstart' of the <video>, which is rendered while videoSources.length > 0
handleLoadStart ==
  /\ component # None
  /\ Value(component).mounted
  /\ Value(component).videoSources # <<>>
  /\ component' = Some([Value(component) EXCEPT
                          !.loadingState = "loading",
                          !.callback = "onLoadStart", !.event = "loadstart", !.reload = FALSE])
  /\ UNCHANGED <<handlerVars, probe, thrown, pending, sourceVars, monitor, timers, pushed>>

\* variant: 'canplay' leaves the fallback as it is
handleCanPlayKeepsFallback ==
  /\ component # None
  /\ Value(component).mounted
  /\ Value(component).videoSources # <<>>
  /\ component' = Some([Value(component) EXCEPT
                          !.loadingState = "loaded",
                          !.callback = "onLoadComplete",
                          !.event = "canplay", !.reload = FALSE])
  /\ UNCHANGED <<handlerVars, probe, thrown, pending, sourceVars, monitor, timers, pushed>>

\* 'canplay' of the <video>
handleCanPlay ==
  /\ component # None
  /\ Value(component).mounted
  /\ Value(component).videoSources # <<>>
  /\ component' = Some([Value(component) EXCEPT
                          !.loadingState = "loaded", !.showFallback = FALSE,
                          !.callback = "onLoadComplete",
                          !.event = "canplay", !.reload = FALSE])
  /\ UNCHANGED <<handlerVars, probe, thrown, pending, sourceVars, monitor, timers, pushed>>

\* variant: the next source is tried while the index is below the length
componentHandleErrorPastLast ==
  /\ component # None
  /\ Value(component).mounted
  /\ Value(component).videoSources # <<>>
  /\ LET c == Value(component)
         timeout == IF c.retryTimeoutRef = {} THEN 1 ELSE Value(c.retryTimeoutRef) + 1
     IN IF c.currentSourceIndex < Len(c.videoSources)
        THEN /\ timeout <= MaxTimeouts
             /\ component' = Some([c EXCEPT
                                     !.currentSourceIndex = c.currentSourceIndex + 1,
                                     !.retryTimeoutRef = Some(timeout),
                                     !.timeouts = @ \cup {timeout},
                                     !.callback = "", !.event = "error", !.reload = FALSE])
        ELSE component' = Some([c EXCEPT
                                  !.loadingState = "error", !.showFallback = TRUE,
                                  !.callback = "onError",
                                  !.event = "error", !.reload = FALSE])
  /\ UNCHANGED <<handlerVars, probe, thrown, pending, sourceVars, monitor, timers, pushed>>

\* 'error' of the <video>: handleError of the component
componentHandleError ==
  /\ component # None
  /\ Value(component).mounted
  /\ Value(component).videoSources # <<>>
  /\ LET c == Value(component)
         timeout == IF c.retryTimeoutRef = {} THEN 1 ELSE Value(c.retryTimeoutRef) + 1
     IN IF c.currentSourceIndex < Len(c.videoSources) - 1
        THEN /\ timeout <= MaxTimeouts
             /\ component' = Some([c EXCEPT
                                     !.currentSourceIndex = c.currentSourceIndex + 1,
                                     !.retryTimeoutRef = Some(timeout),
                                     !.timeouts = @ \cup {timeout},
                                     !.callback = "", !.event = "error", !.reload = FALSE])
        ELSE component' = Some([c EXCEPT
                                  !.loadingState = "error", !.showFallback = TRUE,
                                  !.callback = "onError",
                                  !.event = "error", !.reload = FALSE])
  /\ UNCHANGED <<handlerVars, probe, thrown, pending, sourceVars, monitor, timers, pushed>>

\* a callback of line 117 runs, 500 ms after it was set: videoRef.current is
\* the <video> while the component is mounted and renders one, null otherwise
retryTimeout ==
  /\ component # None
  /\ \E timeout \in Value(component).timeouts :
       component' = Some([Value(component) EXCEPT
                            !.timeouts = @ \ {timeout},
                            !.callback = "",
                            !.event = "timeout", !.reload = Value(component).mounted
                                         /\ Value(component).videoSources # <<>>])
  /\ UNCHANGED <<handlerVars, probe, thrown, pending, sourceVars, monitor, timers, pushed>>

\* the cleanup of lines 146-152: clearTimeout(retryTimeoutRef.current)
unmount ==
  /\ component # None
  /\ Value(component).mounted
  /\ component' = Some([Value(component) EXCEPT
                          !.mounted = FALSE,
                          !.timeouts = @ \ Value(component).retryTimeoutRef,
                          !.callback = "", !.event = "unmount", !.reload = FALSE])
  /\ UNCHANGED <<handlerVars, probe, thrown, pending, sourceVars, monitor, timers, pushed>>

InitComponent ==
  /\ InitHandler
  /\ maxRetries = DefaultMaxRetries
  /\ retryDelay = DefaultRetryDelay
  /\ performanceThreshold = DefaultPerformanceThreshold
  /\ probe = NoProbe
  /\ thrown = None
  /\ pending = <<>>
  /\ env \in {w \in Envs : w.getBattery}
  /\ config \in {Config(VIDEO_SOURCE_CONFIG, QUALITY_SELECTION_RULES),
                  Config(TieredCatalog, QUALITY_SELECTION_RULES)}
  /\ manager = None
  /\ out = NoCall
  /\ monitor = None
  /\ timers = 0
  /\ pushed = [loadTimes |-> 0, stallEvents |-> 0, memoryUsage |-> 0]
  /\ component = Some(ResponsiveVideoBackground)

NextComponent ==
  \/ initializeVideoManager
  \/ initializeVideoManagerResume
  \/ handleResize
  \/ handleLoadStart
  \/ handleCanPlay
  \/ componentHandleError
  \/ retryTimeout
  \/ unmount

SpecComponent == InitComponent /\ [][NextComponent]_vars

---------------------------------------------------------------------------
(* Properties *)

\* a step that is one handleError call
HandledStep == op' = "handleError" /\ Len(errorHistory') = Len(errorHistory) + 1

SuccessOps == {"reset", "recordSuccessfulLoad"}

\* C1: retryCount stays within 0..maxRetries; a step raises it only by one and
\* only when handleError returned Retry; a step lowers it only to 0 and only
\* when the step is reset or recordSuccessfulLoad.
C1_RetryCountDiscipline ==
  [][ /\ retryCount \in 0..maxRetries
      /\ retryCount' \in 0..maxRetries
      /\ (retryCount' > retryCount =>
            /\ retryCount' = retryCount + 1
            /\ HandledStep
            /\ last'.strategy = RETRY)
      /\ (HandledStep /\ last'.strategy # RETRY => retryCount' = retryCount)
      /\ (retryCount' < retryCount => retryCount' = 0 /\ op' \in SuccessOps) ]_vars

\* a failure reported at the retry limit was answered with a terminal action
\* and the count stayed at the limit
C1_Witness ==
  /\ op = "handleError"
  /\ last.errorInfo.retryCount = maxRetries
  /\ last.strategy = STATIC_BACKGROUND
  /\ retryCount = maxRetries

\* the terminal strategy of an error kind, as the claim lists it
TerminalOf(type) ==
  IF type = PERFORMANCE_ERROR THEN DISABLE_VIDEO ELSE STATIC_BACKGROUND

\* C2: an action returned for a failure reported with retryCount >= maxRetries
\* carries the terminal strategy of the classified kind.
C2_TerminalAtLimit ==
  (last.strategy # "" /\ last.errorInfo.retryCount >= maxRetries)
    => last.strategy = TerminalOf(last.errorInfo.type)

C2_Witness ==
  /\ last.errorInfo.retryCount >= maxRetries
  /\ last.errorInfo.type = PERFORMANCE_ERROR
  /\ last.strategy = DISABLE_VIDEO

\* C3: with maxRetries = 3, once three Retry actions were returned since the
\* last reset or successful load, every network failure handled is answered
\* with the static background and retryCount stays 3 (so the three retries stay
\* on record and the same holds for the next failure).
C3_StaticAfterThreeRetries ==
  [][ (maxRetries = 3 /\ Len(retryLog) = 3 /\ HandledStep
         /\ last'.errorInfo.type = NETWORK_ERROR)
        => /\ last'.strategy = STATIC_BACKGROUND
           /\ retryCount = 3
           /\ retryCount' = 3
           /\ Len(retryLog') = 3 ]_vars

\* three retries, then two network failures in a row, both answered statically
C3_Witness ==
  /\ Len(retryLog) = 3
  /\ Len(errorHistory) = 5
  /\ errorHistory[4] = [type |-> NETWORK_ERROR, retryCount |-> 3]
  /\ errorHistory[5] = [type |-> NETWORK_ERROR, retryCount |-> 3]
  /\ last.strategy = STATIC_BACKGROUND
  /\ retryCount = 3

\* C4: for a network error below the retry limit the strategy follows the
\* network status alone: offline gives the static background, online and slow
\* gives reduce_quality, online and not slow gives retry.
C4_NetworkStrategy ==
  (last.errorInfo.type = NETWORK_ERROR /\ last.errorInfo.retryCount < maxRetries)
    => /\ last.networkStatus # {}
       /\ LET status == Value(last.networkStatus) IN
          last.strategy = IF ~status.isOnline THEN STATIC_BACKGROUND
                          ELSE IF status.isSlowConnection THEN REDUCE_QUALITY
                          ELSE RETRY

\* offline at retryCount 0: the static background, not a retry
C4_Witness ==
  /\ last.errorInfo.type = NETWORK_ERROR
  /\ last.errorInfo.retryCount = 0
  /\ last.networkStatus = Some([isOnline |-> FALSE, isSlowConnection |-> FALSE])
  /\ last.strategy = STATIC_BACKGROUND

\* the next-lower tier of a tier (low stays low)
NextLower(tier) ==
  CASE tier = "high" -> "medium"
    [] tier = "medium" -> "low"
    [] OTHER -> "low"

\* C5: a codec error below the retry limit yields reduce_quality whose target
\* is the next-lower tier of the tier it starts from.
C5_CodecReducesOneTier ==
  (last.errorInfo.type = CODEC_ERROR /\ last.errorInfo.retryCount < maxRetries)
    => /\ last.strategy = REDUCE_QUALITY
       /\ last.qualityReduction # {}
       /\ Value(last.qualityReduction).to = NextLower(Value(last.qualityReduction).from)

\* C6: a Retry action carries min(retryDelay * 2^k + jitter, 10000), k the
\* retryCount the failure was reported at and jitter in 0..999, and leaves
\* retryCount at k + 1.
C6_RetryDelay ==
  (last.strategy = RETRY)
    => LET k == last.errorInfo.retryCount IN
       /\ last.jitter # {} /\ last.delay # {}
       /\ Value(last.jitter) \in 0..999
       /\ Value(last.delay) = Min(retryDelay * (2 ^ k) + Value(last.jitter), 10000)
       /\ (op = "handleError" => retryCount = k + 1)

\* a retry whose backoff reached the 10 s cap
C6_Witness ==
  /\ last.strategy = RETRY
  /\ op = "handleError"
  /\ retryDelay * (2 ^ last.errorInfo.retryCount) + Value(last.jitter) > 10000
  /\ Value(last.delay) = 10000

\* C7: with retryDelay = 1000 the delays without jitter of the retries made
\* since the last reset never decrease from one retry to the next, and no
\* returned delay exceeds 10000 ms.
C7_BackoffMonotone ==
  (retryDelay = 1000)
    => /\ \A i \in 1..(Len(retryLog) - 1) : retryLog[i] <= retryLog[i + 1]
       /\ (last.delay # {} => Value(last.delay) <= 10000)

C7_Witness ==
  /\ retryDelay = 1000
  /\ retryLog = <<1000, 2000, 4000>>
  /\ last.strategy = RETRY

\* C8: reset and recordSuccessfulLoad leave retryCount at 0 and change neither
\* the error history nor the action returned last (the only place a tier is on
\* record: the handler has no tier field).
C8_SuccessResetsCountOnly ==
  [][ (op' \in SuccessOps)
        => /\ retryCount' = 0
           /\ errorHistory' = errorHistory
           /\ last' = last ]_vars

\* a reset after a failure that was reported at retryCount > 0 and degraded to low
C8_Witness ==
  /\ op \in SuccessOps
  /\ retryCount = 0
  /\ errorHistory # <<>>
  /\ errorHistory[Len(errorHistory)].retryCount > 0
  /\ last.strategy = REDUCE_QUALITY
  /\ Value(last.qualityReduction).to = "low"

KindOrder ==
  <<NETWORK_ERROR, CODEC_ERROR, PERFORMANCE_ERROR, TIMEOUT_ERROR, PLAYBACK_ERROR>>

\* the predicate of a kind on the probed input
KindHolds(kind) ==
  CASE kind = NETWORK_ERROR -> isNetworkError(probe.error, probe.context.networkInfo, probe.nav)
    [] kind = CODEC_ERROR -> isCodecError(probe.error, probe.context.videoElement)
    [] kind = PERFORMANCE_ERROR -> isPerformanceError(probe.error, probe.context, probe.nav)
    [] kind = TIMEOUT_ERROR -> isTimeoutError(probe.error, probe.context)
    [] kind = PLAYBACK_ERROR -> hasVideoError(probe.context)
    [] OTHER -> FALSE

\* C10: classifyError returns the first kind of the fixed order whose
\* predicate holds, and loading_error exactly when none holds.
C10_FirstMatchWins ==
  probe.called =>
    LET hits == { i \in 1..Len(KindOrder) : KindHolds(KindOrder[i]) } IN
    /\ (hits # {} => \E i \in hits : /\ \A j \in hits : i <= j
                                      /\ probe.result = KindOrder[i])
    /\ (probe.result = LOADING_ERROR <=> hits = {})

\* an input on which all five predicates hold is classified network_error
C10_Witness ==
  /\ probe.called
  /\ \A i \in 1..Len(KindOrder) : KindHolds(KindOrder[i])
  /\ probe.result = NETWORK_ERROR

\* C11: every handleError call completes without an exception and returns an
\* action whose strategy is one of retry, reduce_quality, static_background,
\* disable_video.
C11_AlwaysAnswersWithPlan ==
  (op = "handleError") => (thrown = None /\ last.strategy \in FALLBACK_STRATEGIES)

\* low < medium < high
TierRank(tier) ==
  CASE tier = "low" -> 1
    [] tier = "medium" -> 2
    [] tier = "high" -> 3
    [] OTHER -> 0

TerminalStrategies == {STATIC_BACKGROUND, DISABLE_VIDEO}

\* C13: the policy is bounded for every error kind: a failure handled is
\* answered with a terminal action or it uses up one of the maxRetries retries,
\* so that failures reported with no reset in between reach a terminal action.
C13_EveryAnswerNearsTerminal ==
  [][ HandledStep
        => (last'.strategy \in TerminalStrategies \/ retryCount' = retryCount + 1) ]_vars

\* C14: a failure is processed to the end before the next one is taken up: at
\* no time is more than one handleError call of the handler under way.
C14_OneFailureAtATime == Len(pending) <= 1

\* C15: a getOptimalVideoSources call leaves the manager as it was, and returns
\* the list and tier of the call before it when updateCapabilities did not run
\* in between.
C15_SelectionIdempotent ==
  [][ (out'.call = "getOptimalVideoSources")
        => /\ manager' = manager
           /\ (out.sources # None
                 => out'.sources = out.sources /\ out'.quality = out.quality) ]_vars

\* a list returned again after the window changed class, with no
\* updateCapabilities in between
C15_Witness ==
  /\ out.call = "getOptimalVideoSources"
  /\ out.again
  /\ out.sources # None
  /\ Value(manager).deviceType # detectDeviceType(env)

\* C16: the list getOptimalVideoSources returns has no two entries with the
\* same src.
C16_NoDuplicateSrc ==
  (out.sources # None)
    => LET list == Value(out.sources) IN
       \A i, j \in 1..Len(list) : list[i].src = list[j].src => i = j

\* C17: when the catalog has an entry for the device class of the manager,
\* getOptimalVideoSources returns a list that is not empty.
C17_NonEmptyList ==
  (/\ out.call = "getOptimalVideoSources"
   /\ Lookup(config.catalog, Value(manager).deviceType) # None
   /\ DOMAIN config.catalog[Value(manager).deviceType] # {})
    => /\ out.thrown = None
       /\ out.sources # None
       /\ Len(Value(out.sources)) > 0

\* C18: the tier resolved is low, medium or high, and it is low when the
\* connection type is slow-2g.
C18_TierIsValid ==
  (out.call = "getOptimalVideoSources")
    => /\ out.quality \in Tiers
       /\ (Value(manager).deviceCapabilities.connectionType = "slow-2g"
             => out.quality = "low")

\* a connection type the rules do not name resolves to medium
C18_Witness ==
  /\ out.call = "getOptimalVideoSources"
  /\ Value(manager).deviceCapabilities.connectionType \notin DOMAIN config.rules
  /\ out.quality = "medium"

\* the tier the rules table yields: the fixed tier of the entry, its tier for
\* the device class, medium when there is neither
BaseTier(deviceCapabilities, rules) ==
  LET qualityRule == Lookup(rules, deviceCapabilities.connectionType) IN
  IF qualityRule = {} THEN "medium"
  ELSE IF Value(qualityRule).typeof = "string" THEN Value(qualityRule).tier
  ELSE Value(qualityRule).perDevice[deviceCapabilities.deviceType]

\* C19: the tier resolved is medium for a mobile device with pixelRatio > 2 on
\* 4g or wifi whose base tier is low, and the base tier in every other case.
C19_OverrideRule ==
  (out.call = "getOptimalVideoSources")
    => LET caps == Value(manager).deviceCapabilities
           base == BaseTier(caps, config.rules)
       IN out.quality =
            IF /\ caps.deviceType = "mobile"
               /\ caps.pixelRatio > 20
               /\ caps.connectionType \in {"4g", "wifi"}
               /\ base = "low"
            THEN "medium"
            ELSE base

\* the value of the preload table, metadata when it has none
TablePreload(deviceCapabilities) ==
  LET d == deviceCapabilities.deviceType
      c == deviceCapabilities.connectionType
  IN IF d \in DOMAIN PRELOAD_RULES /\ c \in DOMAIN PRELOAD_RULES[d]
     THEN PRELOAD_RULES[d][c] ELSE "metadata"

\* low battery while not charging: the level is known, below 0.2, and the
\* battery is not charging
LowBattery(batteryStatus) ==
  /\ batteryStatus.supported
  /\ batteryStatus.level # None
  /\ Value(batteryStatus.level) < 20
  /\ batteryStatus.charging # Some(TRUE)

\* C20 as stated: the preload attribute of the video is none when the device
\* is low-end, the battery is low while not charging or the thermal state is
\* neither nominal nor unknown, whatever the device class; the table value
\* otherwise.
C20_PreloadDegradedEverywhere ==
  (out.call = "getVideoAttributes" /\ manager # None)
    => LET caps == Value(manager).deviceCapabilities IN
       Value(out.attributes).preload =
         IF \/ caps.isLowEndDevice
            \/ LowBattery(caps.batteryStatus)
            \/ caps.thermalState.state \notin {"nominal", "unknown"}
         THEN Some("none")
         ELSE Some(TablePreload(caps))

\* C20 as amended: the degradation to none is made for a device of class
\* mobile or running a mobile operating system only; every other device gets
\* the table value.
C20_PreloadDegradedOnMobile ==
  (out.call = "getVideoAttributes" /\ manager # None)
    => LET caps == Value(manager).deviceCapabilities IN
       Value(out.attributes).preload =
         IF /\ (caps.deviceType = "mobile" \/ caps.isMobileOS)
            /\ \/ caps.isLowEndDevice
               \/ LowBattery(caps.batteryStatus)
               \/ (caps.thermalState.supported /\ caps.thermalState.state # "nominal")
         THEN Some("none")
         ELSE Some(TablePreload(caps))

\* a phone that is not low-end, on a battery at 10 %, not charging: none
\* instead of the metadata of the table
C20_Witness ==
  /\ out.call = "getVideoAttributes"
  /\ manager # None
  /\ Value(manager).deviceCapabilities.deviceType = "mobile"
  /\ ~Value(manager).deviceCapabilities.isLowEndDevice
  /\ Value(manager).deviceCapabilities.batteryStatus.level = Some(10)
  /\ Value(manager).deviceCapabilities.batteryStatus.charging = Some(FALSE)
  /\ TablePreload(Value(manager).deviceCapabilities) = "metadata"
  /\ Value(out.attributes).preload = Some("none")

\* the calls that read the capabilities anew
Probes == {"constructor", "updateCapabilities"}

\* C21: a probe made right after another probe, the environment unchanged in
\* between, produces the snapshot the earlier probe produced.
C21_ProbeIsPure ==
  [][(out.call \in Probes /\ out'.call = "updateCapabilities")
       => Value(manager').deviceCapabilities = Value(manager).deviceCapabilities]_vars

\* C22: the snapshot of a manager changes only by being replaced as a whole
\* in updateCapabilities; no other step writes a field of it.
C22_SnapshotReplacedWholesale ==
  [][(manager # None /\ manager' # None
        /\ Value(manager').deviceCapabilities # Value(manager).deviceCapabilities)
       => out'.call = "updateCapabilities"]_vars

\* the buffer holds the last Min(count, limit) of the entries pushed into it,
\* the oldest first
HoldsMostRecent(array, count, limit) ==
  /\ Len(array) = Min(count, limit)
  /\ \A i \in 1..Len(array) : array[i].timestamp = count - Len(array) + i

\* C23: the monitor holds at most 10 load samples, 20 stall events and 20
\* memory samples, and each buffer holds exactly the entries pushed last, in
\* the order they were pushed.
C23_BuffersHoldMostRecent ==
  monitor # None =>
    LET metrics == Value(monitor).metrics IN
    /\ HoldsMostRecent(metrics.loadTimes, pushed.loadTimes, 10)
    /\ HoldsMostRecent(metrics.stallEvents, pushed.stallEvents, 20)
    /\ HoldsMostRecent(metrics.memoryUsage, pushed.memoryUsage, 20)

\* each buffer has evicted its oldest entry at least once
C23_Witness ==
  /\ monitor # None
  /\ pushed.loadTimes > 10 /\ Len(Value(monitor).metrics.loadTimes) = 10
  /\ pushed.stallEvents > 20 /\ Len(Value(monitor).metrics.stallEvents) = 20
  /\ pushed.memoryUsage > 20 /\ Len(Value(monitor).metrics.memoryUsage) = 20

\* C24: the status reports a slow connection exactly when the effective type
\* is slow-2g or 2g, or the downlink measured is below 1.5 Mbps, a measured 0
\* included.
C24_SlowIffClassOrBandwidth ==
  probe.called =>
    LET connection == probe.nav.connection
        effectiveType == IF connection # {} THEN Value(connection).effectiveType ELSE None
        downlink == IF connection # {} THEN Value(connection).downlink ELSE None
    IN probe.result.isSlowConnection
         <=> \/ effectiveType \in {Some("slow-2g"), Some("2g")}
             \/ (downlink # None /\ Value(downlink) < 15)

\* C25: once the component is unmounted no retry timer is pending, however
\* many failures scheduled one before the unmount.
C25_TeardownCancelsTimers ==
  (component # None /\ ~Value(component).mounted) => Value(component).timeouts = {}

\* C26: a handleError call appends one record to the error history, holding
\* the kind the failure was classified as and the retryCount the call found;
\* every other operation, reset and recordSuccessfulLoad included, leaves the
\* history as it is.
C26_HistoryAppendOnly ==
  [][IF op' = "handleError"
     THEN /\ errorHistory' = Append(errorHistory, [type |-> last'.errorInfo.type,
                                                   retryCount |-> retryCount])
          /\ last'.errorInfo.type \in ERROR_TYPES
     ELSE errorHistory' = errorHistory]_vars

\* two failures are on record, the second found retryCount 1, and a reset or a
\* successful load came after them
C26_Witness ==
  /\ op \in SuccessOps
  /\ Len(errorHistory) = 2
  /\ errorHistory[1].retryCount = 0
  /\ errorHistory[2].retryCount = 1
  /\ retryCount = 0

\* C27: a network error on a slow connection is answered with reduce_quality
\* whose target is the next-lower tier of the tier it starts from, never low
\* straight from high.
C27_SlowNetworkStepsOneTier ==
  (/\ last.strategy = REDUCE_QUALITY
   /\ last.errorInfo.type = NETWORK_ERROR
   /\ last.networkStatus # {}
   /\ Value(last.networkStatus).isSlowConnection)
    => Value(last.qualityReduction).to = NextLower(Value(last.qualityReduction).from)

\* C28: a performance error below the retry limit is answered with
\* reduce_quality whose target is two tiers below the tier it starts from,
\* which is low from every tier.
C28_PerformanceDropsTwoTiers ==
  (last.errorInfo.type = PERFORMANCE_ERROR /\ last.errorInfo.retryCount < maxRetries)
    => /\ last.strategy = REDUCE_QUALITY
       /\ Value(last.qualityReduction).to = "low"

\* C29: below the retry limit a playback or loading error is answered with
\* retry while retryCount < 2 and with reduce_quality from then on, and a
\* timeout error is always answered with retry.
C29_RetryTwiceThenReduce ==
  (op = "handleError" /\ last.errorInfo.retryCount < maxRetries)
    => /\ last.errorInfo.type \in {PLAYBACK_ERROR, LOADING_ERROR}
            => last.strategy = IF last.errorInfo.retryCount < 2 THEN RETRY
                               ELSE REDUCE_QUALITY
       /\ last.errorInfo.type = TIMEOUT_ERROR => last.strategy = RETRY

\* a playback or loading error reported at retryCount 2, below the limit of 3
C29_Witness ==
  /\ op = "handleError"
  /\ last.errorInfo.type \in {PLAYBACK_ERROR, LOADING_ERROR}
  /\ last.errorInfo.retryCount = 2
  /\ maxRetries = 3
  /\ last.strategy = REDUCE_QUALITY

\* C30: an input that is no network error is classified codec_error whenever
\* the media element reports code 3 or 4 or the error text matches a codec
\* pattern, with or without a media element and whatever other code it reports.
C30_CodecByCodeOrText ==
  (/\ probe.called
   /\ ~KindHolds(NETWORK_ERROR)
   /\ \/ \E pattern \in codecErrorPatterns : Test(pattern, ErrorMessage(probe.error))
      \/ /\ probe.context.videoElement # {}
         /\ Value(probe.context.videoElement).error \in {Some(3), Some(4)})
    => probe.result = CODEC_ERROR

\* the catalog has no entry for the device class, or none for the tier
NoCatalogEntry(catalog, deviceType, quality) ==
  \/ deviceType \notin DOMAIN catalog
  \/ quality \notin DOMAIN catalog[deviceType]

\* C31: when the catalog has no entry for the device class of the manager and
\* the tier resolved, getOptimalVideoSources returns, without throwing, a list
\* of one entry whose src is the default asset.
C31_MissingEntryGivesDefault ==
  (/\ out.call = "getOptimalVideoSources"
   /\ NoCatalogEntry(config.catalog, Value(manager).deviceType, out.quality))
    => /\ out.thrown = None
       /\ out.sources # None
       /\ Len(Value(out.sources)) = 1
       /\ Value(out.sources)[1].src = <<"/assets/", DEFAULT_CONFIG.fallbackVideo>>

\* the list starts with a descriptor of the tier resolved, and every descriptor
\* is the mp4 descriptor the catalog gives the device class for its tier, the
\* tiers strictly descending along the list
OrderedFromPrimary(list, quality, deviceType, catalog) ==
  /\ list[1].quality = quality
  /\ \A i \in 1..Len(list) :
       /\ deviceType \in DOMAIN catalog
       /\ list[i].quality \in DOMAIN catalog[deviceType]
       /\ list[i] = Source("/assets/", catalog[deviceType][list[i].quality].mp4, "video/mp4",
                           list[i].quality, catalog[deviceType][list[i].quality])
       /\ TierRank(list[i].quality) <= TierRank(quality)
  /\ \A i, j \in 1..Len(list) :
       i < j => TierRank(list[i].quality) > TierRank(list[j].quality)

\* C32 as stated: every list getOptimalVideoSources returns that is not empty
\* starts with the descriptor of the tier resolved, followed by descriptors of
\* the same device class for strictly lower tiers in descending order, and
\* holds no descriptor of a higher tier.
C32_ListOrderedFromPrimary ==
  (/\ out.call = "getOptimalVideoSources"
   /\ out.sources # None
   /\ Value(out.sources) # <<>>)
    => OrderedFromPrimary(Value(out.sources), out.quality, Value(manager).deviceType,
                          config.catalog)

\* C32 as amended: the same, for a device class the catalog has an entry for;
\* for any other device class the list is the one default descriptor, which is
\* labelled medium whatever the tier resolved.
C32_CatalogListOrderedFromPrimary ==
  (/\ out.call = "getOptimalVideoSources"
   /\ out.sources # None
   /\ Value(out.sources) # <<>>)
    => IF Value(manager).deviceType \in DOMAIN config.catalog
       THEN OrderedFromPrimary(Value(out.sources), out.quality, Value(manager).deviceType,
                               config.catalog)
       ELSE Value(out.sources) = getFallbackSources("/assets/").mp4

\* a list of three descriptors: high, medium and low
C32_Witness ==
  /\ out.call = "getOptimalVideoSources"
  /\ out.quality = "high"
  /\ out.sources # None
  /\ Len(Value(out.sources)) = 3
  /\ Value(out.sources)[3].quality = "low"

\* C33: the device class a probe reads is mobile when the user agent matches
\* the mobile pattern or the width is at most 767, else tablet when the user
\* agent matches the tablet pattern or the width is in 768..1199, else desktop;
\* a user agent that matches both patterns gives mobile at any width.
C33_DeviceClass ==
  [][(out'.call \in Probes)
       => LET width == env'.innerWidth
              mobile == isMobileUserAgent(env'.userAgent)
              tablet == isTabletUserAgent(env'.userAgent)
              deviceType == Value(manager').deviceType
          IN /\ deviceType =
                  IF mobile \/ width <= 767 THEN "mobile"
                  ELSE IF tablet \/ (width >= 768 /\ width <= 1199) THEN "tablet"
                  ELSE "desktop"
             /\ (mobile /\ tablet) => deviceType = "mobile"
             /\ Value(manager').deviceCapabilities.deviceType = deviceType]_vars

\* an iPad, whose user agent matches both patterns, at a width of 1200
C33_Witness ==
  /\ out.call \in Probes
  /\ isMobileUserAgent(env.userAgent)
  /\ isTabletUserAgent(env.userAgent)
  /\ env.innerWidth >= 1200
  /\ Value(manager).deviceType = "mobile"

\* C34: the connection class a probe reads is the effective type reported when
\* there is one; else the class of the downlink reported, 0 included (4g from
\* 10 Mbps, 3g from 1.5, 2g from 0.15, slow-2g below); else 4g for a desktop
\* and 3g for a mobile or a tablet.  A downlink is counted in tenths of Mbps.
C34_ConnectionClass ==
  [][(out'.call \in Probes)
       => LET connection == env'.connection
              effectiveType == IF connection = None THEN None
                               ELSE Value(connection).effectiveType
              downlink == IF connection = None THEN None ELSE Value(connection).downlink
              connectionSpeed == Value(manager').connectionSpeed
          IN /\ connectionSpeed =
                  IF effectiveType # None THEN Value(effectiveType)
                  ELSE IF downlink # None
                  THEN (IF Value(downlink) >= 100 THEN "4g"
                        ELSE IF Value(downlink) >= 15 THEN "3g"
                        ELSE IF 10 * Value(downlink) >= 15 THEN "2g"
                        ELSE "slow-2g")
                  ELSE IF Value(manager').deviceType = "desktop" THEN "4g"
                  ELSE "3g"
             /\ Value(manager').deviceCapabilities.connectionType = connectionSpeed]_vars

\* C35: in the snapshot a probe produces, the constructor's included,
\* isLowEndDevice is true exactly when the device memory reported is below 2 GB,
\* or the screenWidth of that snapshot is below 360, or it is below 768 with a
\* pixelRatio above 2.5, or there is no hardware acceleration.
C35_LowEndOfOwnSnapshot ==
  [][(out'.call \in Probes)
       => LET caps == Value(manager').deviceCapabilities IN
          caps.isLowEndDevice
            <=> \/ (env'.deviceMemory # None /\ Value(env'.deviceMemory) < 2)
                \/ caps.screenWidth < 360
                \/ (caps.screenWidth < 768 /\ caps.pixelRatio > 25)
                \/ ~caps.hardwareAcceleration]_vars

\* C36: an 'error' of the <video> on a source that is not the last one moves
\* currentSourceIndex up by one, sets one retry timer and calls no onError; an
\* 'error' on the last source sets loadingState to error, shows the fallback
\* and calls onError; and currentSourceIndex is always within
\* 0..max(0, videoSources.length - 1).
C36_ErrorAdvancesOrFails ==
  /\ [](component # None
          => /\ Value(component).currentSourceIndex >= 0
             /\ \/ Value(component).currentSourceIndex = 0
                \/ Value(component).currentSourceIndex <= Len(Value(component).videoSources) - 1)
  /\ [][(component # None /\ component' # None /\ Value(component').event = "error")
          => LET before == Value(component)
                 after == Value(component')
             IN IF before.currentSourceIndex # Len(before.videoSources) - 1
                THEN /\ after.currentSourceIndex = before.currentSourceIndex + 1
                     /\ Cardinality(after.timeouts \ before.timeouts) = 1
                     /\ after.callback # "onError"
                     /\ after.loadingState = before.loadingState
                     /\ after.showFallback = before.showFallback
                ELSE /\ after.currentSourceIndex = before.currentSourceIndex
                     /\ after.timeouts = before.timeouts
                     /\ after.callback = "onError"
                     /\ after.loadingState = "error"
                     /\ after.showFallback]_vars

\* the third of three sources failed, after the first and the second
C36_Witness ==
  /\ component # None
  /\ Value(component).event = "error"
  /\ Value(component).callback = "onError"
  /\ Len(Value(component).videoSources) = 3
  /\ Value(component).currentSourceIndex = 2
  /\ Value(component).loadingState = "error"

\* C37: with handleError calls overlapping at the await of line 65, retryCount
\* stays within maxRetries, and the calls made since the last reset were
\* answered with no more Retry actions than maxRetries allows.
C37_BoundUnderOverlap ==
  /\ retryCount <= maxRetries
  /\ Len(retryLog) <= maxRetries

\* C38: on a handler whose performanceThreshold is not above its
\* networkTimeout, the default thresholds included, classifyError never
\* returns timeout_error: a message with 'timeout' in it is a network error,
\* and a load time above networkTimeout is a performance error or one of the
\* kinds tested before it.
C38_NoTimeoutKind ==
  (probe.called /\ performanceThreshold <= networkTimeout)
    => /\ probe.result # TIMEOUT_ERROR
       /\ (Test("timeout", ErrorMessage(probe.error)) => probe.result = NETWORK_ERROR)
       /\ (probe.context.loadTime # None /\ Value(probe.context.loadTime) > networkTimeout
             => probe.result \in {NETWORK_ERROR, CODEC_ERROR, PERFORMANCE_ERROR})

\* thresholds that are equal: a load time above both, with nothing else to
\* classify by, is a performance error
C38_Witness ==
  /\ probe.called
  /\ performanceThreshold = networkTimeout
  /\ probe.context.loadTime # None
  /\ Value(probe.context.loadTime) > networkTimeout
  /\ probe.context.stallCount = None
  /\ ~isMemoryPressureHigh(probe.nav)
  /\ probe.result = PERFORMANCE_ERROR

\* C39: whatever startMonitoring and stopMonitoring calls and timer callbacks
\* ran, at most one monitorMemoryUsage timer is pending; and while monitoring
\* is stopped no memory sample is appended.
C39_OneSamplingTimer ==
  /\ [](timers <= 1)
  /\ [][(monitor # None /\ ~Value(monitor).isMonitoring /\ ~Value(monitor').isMonitoring)
          => /\ Value(monitor').metrics.memoryUsage = Value(monitor).metrics.memoryUsage
             /\ pushed'.memoryUsage = pushed.memoryUsage]_vars

\* C40: whatever loadstart, canplay, error and resize events came, the
\* fallback is hidden while loadingState is loaded and shown while it is
\* error or initial, and a step hides the fallback only when it is the handler
\* of canplay.
C40_FallbackFollowsLoadingState ==
  /\ [](component # None
          => /\ (Value(component).loadingState = "loaded" => ~Value(component).showFallback)
             /\ (Value(component).loadingState \in {"error", "initial"}
                   => Value(component).showFallback))
  /\ [][(component # None /\ component' # None
           /\ Value(component).showFallback /\ ~Value(component').showFallback)
          => Value(component').event = "canplay"]_vars

\* a source failed, the next one was tried and can play: the fallback, shown
\* until then, is hidden
C40_Witness ==
  /\ component # None
  /\ Value(component).event = "canplay"
  /\ Value(component).currentSourceIndex > 0
  /\ Value(component).loadingState = "loaded"
  /\ ~Value(component).showFallback

====
